---- MODULE Spec2Model ----
(***************************************************************************)
(* A model of the homie5 crate: the device lifecycle step sequences        *)
(* (statemachine.rs, device_proto.rs), the topic codec                     *)
(* (homie5_message.rs), and the subscription / removal generators of the   *)
(* device and controller protocols (device_proto.rs, controller_proto.rs)  *)
(* over the description model's property enumerator                        *)
(* (device_description/mod.rs).                                            *)
(*                                                                         *)
(* Strings are sequences of one-character strings, byte payloads are       *)
(* sequences of integers 0..255, so that split, join, UTF-8 decoding and   *)
(* the 0x00 empty-string encoding are computed rather than assumed.        *)
(***************************************************************************)
EXTENDS Integers, Sequences, FiniteSets, TLC

VARIABLES machines, pub, msg, gen, subs

vars == <<machines, pub, msg, gen, subs>>

(***************************************************************************)
(* Bounds                                                                  *)
(***************************************************************************)
\* number of step sequences alive at the same time
MaxMachines == 2
\* calls of next() on a sequence that has already ended
MaxNoneCalls == 2
\* nodes of a description
MaxNodes == 2
\* properties of one node
MaxProps == 1

None == "None"

(***************************************************************************)
(* Lifecycle step sequences                                                *)
(***************************************************************************)
\* #[default] variant of each step enum
DevicePublishStep_default == "DeviceStateInit"

DeviceReconfigureStep_default == "DeviceStateInit"

DeviceDisconnectStep_default == "DeviceStateDisconnect"

DevicePublishStep_transition_skip(s) ==
    CASE s = "DeviceStateInit" -> "DeviceDescription"
      [] s = "DeviceDescription" -> "PropertyValues"
      [] s = "PropertyValues" -> "DeviceStateReady"
      [] s = "SubscribeProperties" -> "DeviceStateReady"
      [] OTHER -> None

DevicePublishStep_transition(s) ==
    CASE s = "DeviceStateInit" -> "DeviceDescription"
      [] s = "DeviceDescription" -> "PropertyValues"
      [] s = "PropertyValues" -> "SubscribeProperties"
      [] s = "SubscribeProperties" -> "DeviceStateReady"
      [] s = "DeviceStateReady" -> None

DeviceReconfigureStep_transition_swapped(s) ==
    CASE s = "DeviceStateInit" -> "Reconfigure"
      [] s = "Reconfigure" -> "UnsubscribeProperties"
      [] s = "UnsubscribeProperties" -> "DeviceDescription"
      [] s = "DeviceDescription" -> "PropertyValues"
      [] s = "PropertyValues" -> "SubscribeProperties"
      [] s = "SubscribeProperties" -> "DeviceStateReady"
      [] OTHER -> None

DeviceReconfigureStep_transition(s) ==
    CASE s = "DeviceStateInit" -> "UnsubscribeProperties"
      [] s = "UnsubscribeProperties" -> "Reconfigure"
      [] s = "Reconfigure" -> "DeviceDescription"
      [] s = "DeviceDescription" -> "PropertyValues"
      [] s = "PropertyValues" -> "SubscribeProperties"
      [] s = "SubscribeProperties" -> "DeviceStateReady"
      [] s = "DeviceStateReady" -> None

DeviceDisconnectStep_transition_loop(s) ==
    CASE s = "DeviceStateDisconnect" -> "UnsubscribeProperties"
      [] OTHER -> "DeviceStateDisconnect"

DeviceDisconnectStep_transition(s) ==
    CASE s = "DeviceStateDisconnect" -> "UnsubscribeProperties"
      [] s = "UnsubscribeProperties" -> None

\* Transition<T>::transition dispatched on the step type T of the machine
Transition(kind, s) ==
    CASE kind = "publish" -> DevicePublishStep_transition(s)
      [] kind = "reconfigure" -> DeviceReconfigureStep_transition(s)
      [] kind = "disconnect" -> DeviceDisconnectStep_transition(s)

\* new as a singleton would behave: a sequence of a kind that was handed out
\* before resumes where the latest one of that kind stands
HomieStateMachine_new_resumed(kind, initial_state) ==
    LET same == {i \in 1..Len(machines) : machines[i].kind = kind}
        latest == CHOOSE i \in same : \A j \in same : j <= i
    IN [kind |-> kind, state |-> IF same = {} THEN initial_state ELSE machines[latest].state,
        yielded |-> <<>>, nones |-> 0]

\* HomieStateMachine::new: state = Some(initial_state)
HomieStateMachine_new(kind, initial_state) ==
    [kind |-> kind, state |-> initial_state, yielded |-> <<>>, nones |-> 0]

\* HomieStateMachine::transition: state.and_then(|s| s.transition())
HomieStateMachine_transition(m) ==
    IF m.state = None THEN None ELSE Transition(m.kind, m.state)

\* Iterator::next: returns the current state, then moves to its successor.
\* The returned item is recorded in yielded (Some) or counted in nones (None).
HomieStateMachine_next(m) ==
    [m EXCEPT !.state = HomieStateMachine_transition(m),
              !.yielded = IF m.state = None THEN @ ELSE Append(@, m.state),
              !.nones = IF m.state = None THEN @ + 1 ELSE @]

homie_device_publish_steps ==
    /\ Len(machines) < MaxMachines
    /\ machines' = Append(machines, HomieStateMachine_new("publish", DevicePublishStep_default))
    /\ UNCHANGED <<pub, msg, gen, subs>>

homie_device_reconfigure_steps ==
    /\ Len(machines) < MaxMachines
    /\ machines' = Append(machines, HomieStateMachine_new("reconfigure", DeviceReconfigureStep_default))
    /\ UNCHANGED <<pub, msg, gen, subs>>

homie_device_disconnect_steps ==
    /\ Len(machines) < MaxMachines
    /\ machines' = Append(machines, HomieStateMachine_new("disconnect", DeviceDisconnectStep_default))
    /\ UNCHANGED <<pub, msg, gen, subs>>

\* the caller's for-loop pulls the next step of sequence i
StepNext(i) ==
    /\ i \in 1..Len(machines)
    /\ machines[i].nones < MaxNoneCalls
    /\ machines' = [machines EXCEPT ![i] = HomieStateMachine_next(machines[i])]
    /\ UNCHANGED <<pub, msg, gen, subs>>

(***************************************************************************)
(* Strings and bytes                                                       *)
(***************************************************************************)
Lower ==
    <<"a", "b", "c", "d", "e", "f", "g", "h", "i", "j", "k", "l", "m",
      "n", "o", "p", "q", "r", "s", "t", "u", "v", "w", "x", "y", "z">>

Digits == <<"0", "1", "2", "3", "4", "5", "6", "7", "8", "9">>

InSeq(seq, c) == \E i \in 1..Len(seq) : seq[i] = c

IndexOf(seq, c) == CHOOSE i \in 1..Len(seq) : seq[i] = c

\* the byte of an ASCII character ("NUL" stands for the character U+0000)
Ord(c) ==
    CASE InSeq(Lower, c) -> 96 + IndexOf(Lower, c)
      [] InSeq(Digits, c) -> 47 + IndexOf(Digits, c)
      [] c = "NUL" -> 0
      [] c = " " -> 32
      [] c = "$" -> 36
      [] c = "+" -> 43
      [] c = "-" -> 45
      [] c = "." -> 46
      [] c = "/" -> 47
      [] c = "R" -> 82

\* the ASCII character of a byte below 0x80
Chr(b) ==
    CASE b \in 97..122 -> Lower[b - 96]
      [] b \in 48..57 -> Digits[b - 47]
      [] b = 0 -> "NUL"
      [] b = 32 -> " "
      [] b = 36 -> "$"
      [] b = 43 -> "+"
      [] b = 45 -> "-"
      [] b = 46 -> "."
      [] b = 47 -> "/"
      [] b = 82 -> "R"

\* String::into_bytes / str::bytes for ASCII text
StrBytes(s) == [i \in 1..Len(s) |-> Ord(s[i])]

\* UTF-8 well-formedness for one- and two-byte sequences (the modelled
\* payloads hold no lead byte of a longer sequence)
RECURSIVE Utf8Valid(_)
Utf8Valid(b) ==
    IF b = <<>> THEN TRUE
    ELSE IF b[1] < 128 THEN Utf8Valid(Tail(b))
    ELSE IF b[1] \in 194..223 /\ Len(b) >= 2 /\ b[2] \in 128..191
         THEN Utf8Valid(Tail(Tail(b)))
    ELSE FALSE

\* the characters of well-formed UTF-8; U+00E9 is the only two-byte
\* character of the modelled payloads
RECURSIVE Utf8Chars(_)
Utf8Chars(b) ==
    IF b = <<>> THEN <<>>
    ELSE IF b[1] < 128 THEN <<Chr(b[1])>> \o Utf8Chars(Tail(b))
    ELSE <<"U+00E9">> \o Utf8Chars(Tail(Tail(b)))

\* String::from_utf8
String_from_utf8(b) ==
    IF Utf8Valid(b) THEN [ok |-> TRUE, s |-> Utf8Chars(b)]
    ELSE [ok |-> FALSE, err |-> "PayloadConversionError"]

\* str::split(sep).collect()
RECURSIVE Split(_, _)
Split(s, sep) ==
    IF \A i \in 1..Len(s) : s[i] # sep THEN <<s>>
    ELSE LET k == CHOOSE i \in 1..Len(s) : s[i] = sep /\ \A j \in 1..(i - 1) : s[j] # sep
         IN <<SubSeq(s, 1, k - 1)>> \o Split(SubSeq(s, k + 1, Len(s)), sep)

\* [..].join(sep) and format!("{}/{}/..") over a list of segments
RECURSIVE Join(_, _)
Join(toks, sep) ==
    IF toks = <<>> THEN <<>>
    ELSE IF Len(toks) = 1 THEN toks[1]
    ELSE toks[1] \o <<sep>> \o Join(Tail(toks), sep)

\* HomieID::validate: non-empty, only a-z, 0-9 and '-'
HomieID_validate(id) ==
    /\ id # <<>>
    /\ \A i \in 1..Len(id) : InSeq(Lower, id[i]) \/ InSeq(Digits, id[i]) \/ id[i] = "-"

(***************************************************************************)
(* Protocol constants (lib.rs)                                             *)
(***************************************************************************)
DEFAULT_ROOT_TOPIC == <<"h", "o", "m", "i", "e">>

HOMIE_VERSION == <<"5">>

HOMIE_TOPIC_BROADCAST == <<"$", "b", "r", "o", "a", "d", "c", "a", "s", "t">>

DEVICE_ATTRIBUTE_STATE == <<"$", "s", "t", "a", "t", "e">>

DEVICE_ATTRIBUTE_LOG == <<"$", "l", "o", "g">>

DEVICE_ATTRIBUTE_DESCRIPTION ==
    <<"$", "d", "e", "s", "c", "r", "i", "p", "t", "i", "o", "n">>

DEVICE_ATTRIBUTE_ALERT == <<"$", "a", "l", "e", "r", "t">>

\* the attribute list with $state moved to the end
DEVICE_ATTRIBUTES_state_last ==
    <<DEVICE_ATTRIBUTE_LOG, DEVICE_ATTRIBUTE_ALERT, DEVICE_ATTRIBUTE_DESCRIPTION,
      DEVICE_ATTRIBUTE_STATE>>

DEVICE_ATTRIBUTES ==
    <<DEVICE_ATTRIBUTE_STATE, DEVICE_ATTRIBUTE_LOG, DEVICE_ATTRIBUTE_ALERT,
      DEVICE_ATTRIBUTE_DESCRIPTION>>

PROPERTY_SET_TOPIC == <<"s", "e", "t">>

PROPERTY_ATTRIBUTE_TARGET == <<"$", "t", "a", "r", "g", "e", "t">>

HomieDeviceStatusValues == {"Init", "Ready", "Disconnected", "Sleeping", "Lost"}

\* HomieDeviceStatus::as_str
HomieDeviceStatus_as_str(st) ==
    CASE st = "Init" -> <<"i", "n", "i", "t">>
      [] st = "Ready" -> <<"r", "e", "a", "d", "y">>
      [] st = "Disconnected" ->
            <<"d", "i", "s", "c", "o", "n", "n", "e", "c", "t", "e", "d">>
      [] st = "Sleeping" -> <<"s", "l", "e", "e", "p", "i", "n", "g">>
      [] st = "Lost" -> <<"l", "o", "s", "t">>

\* HomieDeviceStatus::from_str
HomieDeviceStatus_from_str(s) ==
    CASE s = <<"i", "n", "i", "t">> -> [ok |-> TRUE, state |-> "Init"]
      [] s = <<"r", "e", "a", "d", "y">> -> [ok |-> TRUE, state |-> "Ready"]
      [] s = <<"d", "i", "s", "c", "o", "n", "n", "e", "c", "t", "e", "d">> ->
            [ok |-> TRUE, state |-> "Disconnected"]
      [] s = <<"s", "l", "e", "e", "p", "i", "n", "g">> -> [ok |-> TRUE, state |-> "Sleeping"]
      [] s = <<"l", "o", "s", "t">> -> [ok |-> TRUE, state |-> "Lost"]
      [] OTHER -> [ok |-> FALSE, err |-> "InvalidDeviceState"]

\* Display of HomieDomain: Default is "homie", All is "+", Custom its segment
HomieDomain_to_string(d) ==
    CASE d.kind = "Default" -> DEFAULT_ROOT_TOPIC
      [] d.kind = "All" -> <<"+">>
      [] d.kind = "Custom" -> d.value

(***************************************************************************)
(* Identifiers, descriptions and payloads                                  *)
(***************************************************************************)
\* Option<T>: None is the empty sequence, Some(x) the one-element sequence
NoneOpt == <<>>

Some(x) == <<x>>

EmptyMap == [x \in {} |-> x]

DeviceIdPool == <<<<"d", "1">>, <<"d", "2">>>>

NodeIdPool == <<<<"n", "1">>, <<"n", "2">>, <<"n", "3">>>>

PropIdPool == <<<<"p", "1">>, <<"p", "2">>, <<"p", "3">>>>

DeviceIds == {DeviceIdPool[i] : i \in 1..2}

NodeIds == {NodeIdPool[i] : i \in 1..MaxNodes}

PropIds == {PropIdPool[i] : i \in 1..MaxProps}

Domains == {[kind |-> "Default"], [kind |-> "Custom", value |-> <<"x">>]}

\* Homie5DeviceProtocol { device_ref, is_child }; the instances are those of
\* device d1 and its children
Protocols ==
    {[device_ref |-> [homie_domain |-> d, id |-> DeviceIdPool[1]], is_child |-> c] :
        d \in Domains, c \in BOOLEAN}

DeviceRefs == {[homie_domain |-> d, id |-> i] : d \in Domains, i \in DeviceIds}

Maps(K, V) == UNION {[S -> V] : S \in SUBSET K}

\* HomiePropertyDescription, reduced to the two flags the protocols read
PropertyDescriptions == [settable : BOOLEAN, retained : BOOLEAN]

\* the defaults (settable = false, retained = true) and their opposite
CodecPropertyDescriptions ==
    {[settable |-> FALSE, retained |-> TRUE], [settable |-> TRUE, retained |-> FALSE]}

\* HomieNodeDescription { properties }
NodeDescriptions(P) == {[properties |-> m] : m \in Maps(PropIds, P)}

\* HomieDeviceDescription { root, nodes }
DescriptionsOver(P) ==
    {[root |-> r, nodes |-> m] :
        r \in {NoneOpt} \cup {Some(i) : i \in DeviceIds},
        m \in Maps(NodeIds, NodeDescriptions(P))}

\* descriptions handed to the controller generators, which read no flag
ControllerDescriptions ==
    {d \in DescriptionsOver({[settable |-> FALSE, retained |-> TRUE]}) : d.root = NoneOpt}

\* descriptions handed to the device generators
DeviceDescriptions == DescriptionsOver(PropertyDescriptions)

\* protocol instances that call the device generators
DeviceProtocols == {p \in Protocols : p.device_ref.homie_domain.kind = "Default"}

\* a byte payload / a payload that is the JSON text of a description document
BytesPayload(b) == [bytes |-> b, json |-> NoneOpt]

JsonPayload(doc) == [bytes |-> <<>>, json |-> Some(doc)]

\* a decoded String: ASCII text, or the JSON text of a document
Text(s) == [s |-> s, json |-> NoneOpt]

\* serde_json::to_string(description): root is skipped when None, nodes and
\* properties are skipped when empty (skip_serializing_if)
SerializeNode(n) ==
    [k \in (IF DOMAIN n.properties = {} THEN {} ELSE {"properties"}) |-> n.properties]

SerializeDescription(d) ==
    [k \in (IF d.root = NoneOpt THEN {} ELSE {"root"})
            \cup (IF DOMAIN d.nodes = {} THEN {} ELSE {"nodes"}) |->
        IF k = "root" THEN d.root[1]
        ELSE [n \in DOMAIN d.nodes |-> SerializeNode(d.nodes[n])]]

\* serde_json::from_str::<HomieDeviceDescription>: a missing root is None,
\* missing nodes / properties are the empty map (serde default)
DeserializeNode(doc) ==
    [properties |-> IF "properties" \in DOMAIN doc THEN doc["properties"] ELSE EmptyMap]

DeserializeDescription(doc) ==
    [root |-> IF "root" \in DOMAIN doc THEN Some(doc["root"]) ELSE NoneOpt,
     nodes |-> IF "nodes" \in DOMAIN doc
               THEN [n \in DOMAIN doc["nodes"] |-> DeserializeNode(doc["nodes"][n])]
               ELSE EmptyMap]

\* String::from_utf8(payload.to_vec()) on either payload form
PayloadToString(payload) ==
    IF payload.json # NoneOpt THEN [ok |-> TRUE, s |-> [s |-> <<>>, json |-> payload.json]]
    ELSE LET r == String_from_utf8(payload.bytes)
         IN IF r.ok THEN [ok |-> TRUE, s |-> Text(r.s)] ELSE r

(***************************************************************************)
(* Machine numbers                                                         *)
(*                                                                         *)
(* i64 and f64 are modelled at a reduced width: an integer has IntBits     *)
(* bits (two's complement) and a float has a MantissaBits-bit significand  *)
(* with round-to-nearest-even, so that integers above 2^MantissaBits are   *)
(* not all representable, as integers above 2^53 are not in an f64.        *)
(***************************************************************************)
\* width of the modelled i64
IntBits == 16

\* width of the modelled f64 significand
MantissaBits == 13

\* i64::MAX and i64::MIN
MaxInt == 2^(IntBits - 1) - 1

MinInt == -(2^(IntBits - 1))

InI64(n) == MinInt <= n /\ n <= MaxInt

\* two's-complement wrap-around of an exact result
Wrap(n) == ((n - MinInt) % 2^IntBits) + MinInt

Abs(n) == IF n < 0 THEN -n ELSE n

\* The outcome of an i64 operation whose exact result is n. With overflow
\* checks (checks = TRUE, the debug profile) an overflow panics; without
\* them (the release profile) the result wraps.
Arith(n, checks) ==
    IF InI64(n) THEN [panic |-> FALSE, v |-> n]
    ELSE IF checks THEN [panic |-> TRUE]
    ELSE [panic |-> FALSE, v |-> Wrap(n)]

\* a float is m * 2^e with |m| < 2^MantissaBits, or NaN, or an infinity
FloatZero == [cls |-> "finite", m |-> 0, e |-> 0]

FloatNaN == [cls |-> "NaN"]

FloatInf == [cls |-> "inf"]

\* the float nearest to (p / q) * 2^e for p >= 0, q > 0: scale the quotient
\* into [2^(MantissaBits-1), 2^MantissaBits), then round half to even
RECURSIVE Nearest(_, _, _)
Nearest(p, q, e) ==
    IF p = 0 THEN FloatZero
    ELSE IF p >= q * 2^MantissaBits THEN Nearest(p, 2 * q, e + 1)
    ELSE IF p < q * 2^(MantissaBits - 1) THEN Nearest(2 * p, q, e - 1)
    ELSE LET m0 == p \div q
             r == p % q
             m == IF 2 * r > q \/ (2 * r = q /\ m0 % 2 = 1) THEN m0 + 1 ELSE m0
         IN IF m = 2^MantissaBits
            THEN [cls |-> "finite", m |-> 2^(MantissaBits - 1), e |-> e + 1]
            ELSE [cls |-> "finite", m |-> m, e |-> e]

Negate(f) == [f EXCEPT !.m = -f.m]

\* `n as f64` for an integer n
IntToFloat(n) == IF n < 0 THEN Negate(Nearest(-n, 1, 0)) ELSE Nearest(n, 1, 0)

\* a / b for finite floats, b > 0
FloatDiv(a, b) ==
    IF a.m < 0 THEN Negate(Nearest(-a.m, b.m, a.e - b.e))
    ELSE Nearest(a.m, b.m, a.e - b.e)

\* f64::round of a finite float: the nearest integer, ties away from zero
FloatRound(f) ==
    LET mag == Abs(f.m)
        r == IF f.e >= 0 THEN mag * 2^f.e
             ELSE IF -f.e > MantissaBits THEN 0
             ELSE LET d == 2^(-f.e)
                  IN IF 2 * (mag % d) >= d THEN (mag \div d) + 1 ELSE mag \div d
    IN IF f.m < 0 THEN -r ELSE r

\* `x as i64` for an integral float: saturating
FloatToInt(n) == IF n > MaxInt THEN MaxInt ELSE IF n < MinInt THEN MinInt ELSE n

(***************************************************************************)
(* Numbers as text                                                         *)
(***************************************************************************)
IsDigit(c) == InSeq(Digits, c)

AllDigits(s) == \A i \in 1..Len(s) : IsDigit(s[i])

\* the magnitude of a digit string, cut off above MaxInt + 1 (every larger
\* magnitude overflows whatever the sign)
RECURSIVE Magnitude(_, _)
Magnitude(s, acc) ==
    IF s = <<>> THEN acc
    ELSE LET n == acc * 10 + (IndexOf(Digits, Head(s)) - 1)
         IN Magnitude(Tail(s), IF n > MaxInt + 1 THEN MaxInt + 2 ELSE n)

\* str::parse::<i64>: an optional sign and at least one ASCII digit; a value
\* outside i64 is an error
parse_i64(raw) ==
    LET signed == raw /= <<>> /\ Head(raw) \in {"+", "-"}
        digits == IF signed THEN Tail(raw) ELSE raw
        n == IF signed /\ Head(raw) = "-" THEN -Magnitude(digits, 0)
             ELSE Magnitude(digits, 0)
    IN IF digits = <<>> \/ ~AllDigits(digits) \/ ~InI64(n) THEN [ok |-> FALSE]
       ELSE [ok |-> TRUE, v |-> n]

RECURSIVE DigitsOf(_)
DigitsOf(n) ==
    IF n < 10 THEN <<Digits[n + 1]>> ELSE Append(DigitsOf(n \div 10), Digits[(n % 10) + 1])

\* Display of an i64
i64_to_string(n) == IF n < 0 THEN <<"-">> \o DigitsOf(-n) ELSE DigitsOf(n)

\* the exact value of a digit string
RECURSIVE Decimal(_, _)
Decimal(s, acc) ==
    IF s = <<>> THEN acc ELSE Decimal(Tail(s), acc * 10 + (IndexOf(Digits, Head(s)) - 1))

\* str::parse::<f64> for the texts of the model: "NaN", "inf" and signed
\* decimal integers, each converted to the nearest float
parse_f64(raw) ==
    LET signed == raw /= <<>> /\ Head(raw) \in {"+", "-"}
        digits == IF signed THEN Tail(raw) ELSE raw
    IN IF raw = <<"N", "a", "N">> THEN [ok |-> TRUE, v |-> FloatNaN]
       ELSE IF raw = <<"i", "n", "f">> THEN [ok |-> TRUE, v |-> FloatInf]
       ELSE IF digits = <<>> \/ ~AllDigits(digits) THEN [ok |-> FALSE]
       ELSE [ok |-> TRUE,
             v |-> IF signed /\ Head(raw) = "-" THEN Negate(Nearest(Decimal(digits, 0), 1, 0))
                   ELSE Nearest(Decimal(digits, 0), 1, 0)]

\* Display of an f64: "NaN", "inf", or the shortest decimal that reads back
\* as the same float; for an integral float, its integer digits
f64_to_string(f) ==
    CASE f.cls = "NaN" -> <<"N", "a", "N">>
      [] f.cls = "inf" -> <<"i", "n", "f">>
      [] OTHER -> i64_to_string(FloatRound(f))

\* f64 == f64: NaN is equal to nothing, itself included
f64_eq(a, b) == a.cls /= "NaN" /\ b.cls /= "NaN" /\ a = b

\* String::is_empty
IsEmptyString(t) == t.json = NoneOpt /\ t.s = <<>>

\* homie_str_to_vecu8: the empty string is published as the single byte 0
homie_str_to_vecu8(value_string) ==
    IF value_string = <<>> THEN BytesPayload(<<0>>)
    ELSE BytesPayload(StrBytes(value_string))

\* Display of the HomieValue variants Empty, String, Integer, Float, Bool
\* and Enum
HomieValue_to_string(v) ==
    CASE v.kind = "Empty" -> <<>>
      [] v.kind = "String" -> v.value
      [] v.kind = "Integer" -> i64_to_string(v.value)
      [] v.kind = "Float" -> f64_to_string(v.value)
      [] v.kind = "Bool" -> IF v.value THEN <<"t", "r", "u", "e">>
                            ELSE <<"f", "a", "l", "s", "e">>
      [] v.kind = "Enum" -> v.value

\* HomieValue == HomieValue (derived PartialEq)
HomieValue_eq(a, b) ==
    IF a.kind = "Float" /\ b.kind = "Float" THEN f64_eq(a.value, b.value) ELSE a = b

(***************************************************************************)
(* Topic construction                                                      *)
(***************************************************************************)
\* TopicBuilder: monotonic append domain/version, device id, node id,
\* property id, attribute
TopicBuilder_new_for_device(homie_domain, device_id) ==
    Join(<<HomieDomain_to_string(homie_domain), HOMIE_VERSION, device_id>>, "/")

TopicBuilder_new_for_property(homie_domain, device_id, node_id, prop_id) ==
    Join(<<HomieDomain_to_string(homie_domain), HOMIE_VERSION, device_id, node_id, prop_id>>, "/")

TopicBuilder_add_attr(topic, attr) == topic \o <<"/">> \o attr

TopicBuilder_build(topic) == topic

\* DeviceRef::to_topic
DeviceRef_to_topic(device) ==
    TopicBuilder_build(TopicBuilder_new_for_device(device.homie_domain, device.id))

(***************************************************************************)
(* parse_mqtt_message                                                      *)
(***************************************************************************)
Err(e) == [ok |-> FALSE, err |-> e]

DeviceIdentifier(topic_root, id) == [topic_root |-> topic_root, id |-> id]

\* PropertyIdentifier::new
PropertyIdentifier_new(topic_root, device_id, node_id, prop_id) ==
    [node |-> [device |-> DeviceIdentifier(topic_root, device_id), id |-> node_id],
     id |-> prop_id]

parse_state_no_removal(topic_root, device_id, payload) ==
    LET st == IF payload.json = NoneOpt THEN HomieDeviceStatus_from_str(payload.s)
              ELSE Err("InvalidDeviceState")
    IN IF st.ok
       THEN [ok |-> TRUE, kind |-> "DeviceState",
             device |-> DeviceIdentifier(topic_root, device_id), state |-> st.state]
       ELSE Err("InvalidPayload")

parse_state(topic_root, device_id, payload) ==
    IF ~IsEmptyString(payload)
    THEN LET st == IF payload.json = NoneOpt THEN HomieDeviceStatus_from_str(payload.s)
                   ELSE Err("InvalidDeviceState")
         IN IF st.ok
            THEN [ok |-> TRUE, kind |-> "DeviceState",
                  device |-> DeviceIdentifier(topic_root, device_id), state |-> st.state]
            ELSE Err("InvalidPayload")
    ELSE [ok |-> TRUE, kind |-> "DeviceRemoval",
          device |-> DeviceIdentifier(topic_root, device_id)]

parse_description(topic_root, device_id, payload) ==
    IF payload.json # NoneOpt
    THEN [ok |-> TRUE, kind |-> "DeviceDescription",
          device |-> DeviceIdentifier(topic_root, device_id),
          description |-> DeserializeDescription(payload.json[1])]
    ELSE Err("InvalidPayload")

\* the dispatch with an unknown six-token attribute read as $target
parse_tokens_lenient(tokens, topic_root, device_id, payload) ==
    CASE Len(tokens) = 4 ->
            (CASE tokens[4] = DEVICE_ATTRIBUTE_STATE -> parse_state(topic_root, device_id, payload)
               [] tokens[4] = DEVICE_ATTRIBUTE_DESCRIPTION ->
                    parse_description(topic_root, device_id, payload)
               [] tokens[4] = DEVICE_ATTRIBUTE_LOG ->
                    [ok |-> TRUE, kind |-> "DeviceLog",
                     device |-> DeviceIdentifier(topic_root, device_id), log_msg |-> payload]
               [] OTHER -> Err("InvalidTopic"))
      [] Len(tokens) = 5 ->
            (CASE tokens[4] = DEVICE_ATTRIBUTE_ALERT ->
                    [ok |-> TRUE, kind |-> "DeviceAlert",
                     device |-> DeviceIdentifier(topic_root, device_id),
                     alert_id |-> tokens[5], alert_msg |-> payload]
               [] OTHER ->
                    [ok |-> TRUE, kind |-> "PropertyValue",
                     property |-> PropertyIdentifier_new(topic_root, device_id, tokens[4], tokens[5]),
                     value |-> payload])
      [] Len(tokens) = 6 ->
            (CASE tokens[6] = PROPERTY_SET_TOPIC ->
                    [ok |-> TRUE, kind |-> "PropertySet",
                     property |-> PropertyIdentifier_new(topic_root, device_id, tokens[4], tokens[5]),
                     set_value |-> payload]
               [] OTHER ->
                    [ok |-> TRUE, kind |-> "PropertyTarget",
                     property |-> PropertyIdentifier_new(topic_root, device_id, tokens[4], tokens[5]),
                     target |-> payload])
      [] OTHER -> Err("InvalidTopic")

parse_tokens(tokens, topic_root, device_id, payload) ==
    CASE Len(tokens) = 4 ->
            (CASE tokens[4] = DEVICE_ATTRIBUTE_STATE -> parse_state(topic_root, device_id, payload)
               [] tokens[4] = DEVICE_ATTRIBUTE_DESCRIPTION ->
                    parse_description(topic_root, device_id, payload)
               [] tokens[4] = DEVICE_ATTRIBUTE_LOG ->
                    [ok |-> TRUE, kind |-> "DeviceLog",
                     device |-> DeviceIdentifier(topic_root, device_id), log_msg |-> payload]
               [] OTHER -> Err("InvalidTopic"))
      [] Len(tokens) = 5 ->
            (CASE tokens[4] = DEVICE_ATTRIBUTE_ALERT ->
                    [ok |-> TRUE, kind |-> "DeviceAlert",
                     device |-> DeviceIdentifier(topic_root, device_id),
                     alert_id |-> tokens[5], alert_msg |-> payload]
               [] OTHER ->
                    [ok |-> TRUE, kind |-> "PropertyValue",
                     property |-> PropertyIdentifier_new(topic_root, device_id, tokens[4], tokens[5]),
                     value |-> payload])
      [] Len(tokens) = 6 ->
            (CASE tokens[6] = PROPERTY_SET_TOPIC ->
                    [ok |-> TRUE, kind |-> "PropertySet",
                     property |-> PropertyIdentifier_new(topic_root, device_id, tokens[4], tokens[5]),
                     set_value |-> payload]
               [] tokens[6] = PROPERTY_ATTRIBUTE_TARGET ->
                    [ok |-> TRUE, kind |-> "PropertyTarget",
                     property |-> PropertyIdentifier_new(topic_root, device_id, tokens[4], tokens[5]),
                     target |-> payload]
               [] OTHER -> Err("InvalidTopic"))
      [] OTHER -> Err("InvalidTopic")

\* the parser without the broadcast branch
parse_mqtt_message_no_broadcast(topic, payload) ==
    LET tokens == Split(topic, "/")
    IN IF Len(tokens) <= 3 THEN Err("InvalidTopic")
       ELSE LET topic_root == tokens[1]
                device_id == tokens[3]
                decoded == PayloadToString(payload)
            IN IF ~decoded.ok THEN Err(decoded.err)
               ELSE parse_tokens(tokens, topic_root, device_id, decoded.s)

parse_mqtt_message(topic, payload) ==
    LET tokens == Split(topic, "/")
    IN IF Len(tokens) <= 3 THEN Err("InvalidTopic")
       ELSE LET topic_root == tokens[1]
                device_id == tokens[3]
                decoded == PayloadToString(payload)
            IN IF ~decoded.ok THEN Err(decoded.err)
               ELSE IF device_id = HOMIE_TOPIC_BROADCAST
               THEN [ok |-> TRUE, kind |-> "Broadcast", topic_root |-> topic_root,
                     subtopic |-> Join(SubSeq(tokens, 4, Len(tokens)), "/"),
                     data |-> decoded.s]
               ELSE parse_tokens(tokens, topic_root, device_id, decoded.s)

(***************************************************************************)
(* Device protocol: publishes                                              *)
(***************************************************************************)
DeviceLogLevels == {"Debug", "Info", "Warn", "Error", "Fatal"}

\* DeviceLogLevel::as_str
DeviceLogLevel_as_str(level) ==
    CASE level = "Debug" -> <<"d", "e", "b", "u", "g">>
      [] level = "Info" -> <<"i", "n", "f", "o">>
      [] level = "Warn" -> <<"w", "a", "r", "n">>
      [] level = "Error" -> <<"e", "r", "r", "o", "r">>
      [] level = "Fatal" -> <<"f", "a", "t", "a", "l">>

\* the validation without its second branch
RootValidation_no_mismatch(proto, device_id, description) ==
    IF ~proto.is_child /\ proto.device_ref.id = device_id /\ description.root # NoneOpt
    THEN "NonEmptyRootForRootDevice"
    ELSE "Ok"

\* the root / child validation at the head of publish_description_for_id,
\* subscribe_props_for_id, unsubscribe_props_for_id and remove_device_for_id
RootValidation(proto, device_id, description) ==
    IF ~proto.is_child /\ proto.device_ref.id = device_id /\ description.root # NoneOpt
    THEN "NonEmptyRootForRootDevice"
    ELSE IF ~proto.is_child /\ proto.device_ref.id # device_id
            /\ Some(proto.device_ref.id) # description.root
    THEN "RootMismatch"
    ELSE "Ok"

Publish(kind, ref, topic, payload, retain, qos) ==
    [kind |-> kind, ok |-> TRUE, ref |-> ref, topic |-> topic, payload |-> payload,
     retain |-> retain, qos |-> qos]

DeviceRefOf(proto, device_id) ==
    [homie_domain |-> proto.device_ref.homie_domain, id |-> device_id]

PropertyRefOf(homie_domain, device_id, node_id, prop_id) ==
    [device |-> [homie_domain |-> homie_domain, id |-> device_id],
     node_id |-> node_id, prop_id |-> prop_id]

publish_state_for_id(proto, device_id, state) ==
    Publish("state", DeviceRefOf(proto, device_id),
            TopicBuilder_build(TopicBuilder_add_attr(
                TopicBuilder_new_for_device(proto.device_ref.homie_domain, device_id),
                DEVICE_ATTRIBUTE_STATE)),
            BytesPayload(StrBytes(HomieDeviceStatus_as_str(state))), TRUE, "ExactlyOnce")

publish_log_for_id(proto, device_id, level, log_msg) ==
    Publish("log", DeviceRefOf(proto, device_id),
            TopicBuilder_build(TopicBuilder_add_attr(TopicBuilder_add_attr(
                TopicBuilder_new_for_device(proto.device_ref.homie_domain, device_id),
                DEVICE_ATTRIBUTE_LOG), DeviceLogLevel_as_str(level))),
            BytesPayload(StrBytes(log_msg)), TRUE, "AtLeastOnce")

publish_alert_for_id(proto, device_id, alert_id, alert_msg) ==
    Publish("alert", DeviceRefOf(proto, device_id),
            TopicBuilder_build(TopicBuilder_add_attr(TopicBuilder_add_attr(
                TopicBuilder_new_for_device(proto.device_ref.homie_domain, device_id),
                DEVICE_ATTRIBUTE_ALERT), alert_id)),
            BytesPayload(StrBytes(alert_msg)), TRUE, "AtLeastOnce")

publish_value_for_id(proto, device_id, node_id, prop_id, value, retain) ==
    Publish("value",
            PropertyRefOf(proto.device_ref.homie_domain, device_id, node_id, prop_id),
            TopicBuilder_build(TopicBuilder_new_for_property(
                proto.device_ref.homie_domain, device_id, node_id, prop_id)),
            homie_str_to_vecu8(value), retain, "ExactlyOnce")

publish_target_for_id(proto, device_id, node_id, prop_id, value, retain) ==
    Publish("target",
            PropertyRefOf(proto.device_ref.homie_domain, device_id, node_id, prop_id),
            TopicBuilder_build(TopicBuilder_add_attr(TopicBuilder_new_for_property(
                proto.device_ref.homie_domain, device_id, node_id, prop_id),
                PROPERTY_ATTRIBUTE_TARGET)),
            homie_str_to_vecu8(value), retain, "ExactlyOnce")

publish_description_for_id(proto, device_id, description) ==
    LET check == RootValidation(proto, device_id, description)
    IN IF check # "Ok"
       THEN [kind |-> "description", ok |-> FALSE, err |-> check,
             ref |-> DeviceRefOf(proto, device_id)]
       ELSE Publish("description", DeviceRefOf(proto, device_id),
                    TopicBuilder_build(TopicBuilder_add_attr(
                        TopicBuilder_new_for_device(proto.device_ref.homie_domain, device_id),
                        DEVICE_ATTRIBUTE_DESCRIPTION)),
                    JsonPayload(SerializeDescription(description)), TRUE, "ExactlyOnce")

\* Homie5ControllerProtocol::set_command_ids
set_command_ids(homie_domain, device_id, node_id, prop_id, value) ==
    Publish("set", PropertyRefOf(homie_domain, device_id, node_id, prop_id),
            Join(<<HomieDomain_to_string(homie_domain), HOMIE_VERSION, device_id, node_id,
                   prop_id, PROPERTY_SET_TOPIC>>, "/"),
            homie_str_to_vecu8(HomieValue_to_string(value)), FALSE, "ExactlyOnce")

\* texts handed to publish_log / publish_alert / publish_value / publish_target
Texts == {<<>>, <<"o", "n">>}

AlertIds == {<<"a", "1">>, <<"a", "/", "b">>}

HomieValues ==
    {[kind |-> "Empty"]} \cup {[kind |-> "String", value |-> t] : t \in Texts}
        \cup {[kind |-> "Bool", value |-> b] : b \in BOOLEAN}

(***************************************************************************)
(* The property enumerator (HomiePropertyIterator)                         *)
(***************************************************************************)
\* HomiePropertyIterator::new. A HashMap is iterated in an order the program
\* does not control, so the result is the set of iterators new can return:
\* node_iter holds the nodes not yet visited.
HomiePropertyIterator_new(description) ==
    IF DOMAIN description.nodes = {}
    THEN {[node_iter |-> {}, current_node |-> NoneOpt, property_iter |-> NoneOpt]}
    ELSE {[node_iter |-> DOMAIN description.nodes \ {n},
           current_node |-> Some(n),
           property_iter |-> Some(DOMAIN description.nodes[n].properties)] :
            n \in DOMAIN description.nodes}

\* HomiePropertyIterator::next: the set of outcomes [item, it] of one call;
\* item is None or Some((node_id, prop_id)), it the iterator afterwards
RECURSIVE HomiePropertyIterator_next(_, _)
\* next without the loop: a node whose properties are exhausted at once ends
\* the enumeration
HomiePropertyIterator_next_no_loop(it, description) ==
    IF it.property_iter # NoneOpt /\ it.property_iter[1] # {}
    THEN {[item |-> Some([node_id |-> it.current_node[1], prop_id |-> p]),
           it |-> [it EXCEPT !.property_iter = Some(it.property_iter[1] \ {p})]] :
            p \in it.property_iter[1]}
    ELSE IF it.node_iter = {}
    THEN {[item |-> NoneOpt, it |-> it]}
    ELSE UNION {LET props == DOMAIN description.nodes[n].properties
                    moved == [node_iter |-> it.node_iter \ {n}, current_node |-> Some(n),
                              property_iter |-> Some(props)]
                IN IF props = {} THEN {[item |-> NoneOpt, it |-> moved]}
                   ELSE {[item |-> Some([node_id |-> n, prop_id |-> p]),
                          it |-> [moved EXCEPT !.property_iter = Some(props \ {p})]] :
                            p \in props} : n \in it.node_iter}

HomiePropertyIterator_next(it, description) ==
    IF it.property_iter # NoneOpt /\ it.property_iter[1] # {}
    THEN {[item |-> Some([node_id |-> it.current_node[1], prop_id |-> p]),
           it |-> [it EXCEPT !.property_iter = Some(it.property_iter[1] \ {p})]] :
            p \in it.property_iter[1]}
    ELSE IF it.node_iter = {}
    THEN {[item |-> NoneOpt, it |-> it]}
    ELSE UNION {HomiePropertyIterator_next(
                    [node_iter |-> it.node_iter \ {n},
                     current_node |-> Some(n),
                     property_iter |-> Some(DOMAIN description.nodes[n].properties)],
                    description) : n \in it.node_iter}

(***************************************************************************)
(* Subscription and removal generators                                     *)
(***************************************************************************)
Subscription(topic) == [topic |-> topic, qos |-> "ExactlyOnce"]

Unsubscribe(topic) == [topic |-> topic]

\* Homie5ControllerProtocol::subscribe_props: the closure of flat_map
Controller_subscribe_props_value_only(device, node_id, prop_id) ==
    <<Subscription(Join(<<DeviceRef_to_topic(device), node_id, prop_id>>, "/"))>>

Controller_subscribe_props(device, node_id, prop_id) ==
    <<Subscription(Join(<<DeviceRef_to_topic(device), node_id, prop_id>>, "/")),
      Subscription(Join(<<DeviceRef_to_topic(device), node_id, prop_id,
                          PROPERTY_ATTRIBUTE_TARGET>>, "/"))>>

\* Homie5ControllerProtocol::unsubscribe_props: the closure of map
Controller_unsubscribe_props(device, node_id, prop_id) ==
    <<Unsubscribe(Join(<<DeviceRef_to_topic(device), node_id, prop_id>>, "/"))>>

\* Homie5DeviceProtocol::subscribe_props_for_id: the closure of map
Device_subscribe_props_for_id(proto, device_id, node_id, prop_id) ==
    <<Subscription(TopicBuilder_build(TopicBuilder_add_attr(
        TopicBuilder_new_for_property(proto.device_ref.homie_domain, device_id, node_id, prop_id),
        PROPERTY_SET_TOPIC)))>>

\* Homie5DeviceProtocol::unsubscribe_props_for_id: the closure of map
Device_unsubscribe_props_for_id(proto, device_id, node_id, prop_id) ==
    <<Unsubscribe(TopicBuilder_build(
        TopicBuilder_new_for_property(proto.device_ref.homie_domain, device_id, node_id, prop_id)))>>

ClearingPublish(topic) ==
    [topic |-> topic, qos |-> "ExactlyOnce", retain |-> TRUE, payload |-> BytesPayload(<<>>)]

\* Homie5DeviceProtocol::remove_device_for_id: DEVICE_ATTRIBUTES.iter().map(..)
Device_remove_device_attr(proto, device_id, attribute) ==
    ClearingPublish(TopicBuilder_build(TopicBuilder_add_attr(
        TopicBuilder_new_for_device(proto.device_ref.homie_domain, device_id), attribute)))

Device_remove_device_props_unfiltered(proto, device_id, node_id, prop_id, prop) ==
    <<ClearingPublish(TopicBuilder_build(TopicBuilder_add_attr(
          TopicBuilder_new_for_property(proto.device_ref.homie_domain, device_id, node_id, prop_id),
          PROPERTY_SET_TOPIC))),
      ClearingPublish(TopicBuilder_build(TopicBuilder_add_attr(
          TopicBuilder_new_for_property(proto.device_ref.homie_domain, device_id, node_id, prop_id),
          PROPERTY_ATTRIBUTE_TARGET)))>>

\* Homie5DeviceProtocol::remove_device_for_id: filter(retained).flat_map(..)
Device_remove_device_props(proto, device_id, node_id, prop_id, prop) ==
    IF prop.retained
    THEN <<ClearingPublish(TopicBuilder_build(TopicBuilder_add_attr(
               TopicBuilder_new_for_property(proto.device_ref.homie_domain, device_id, node_id, prop_id),
               PROPERTY_SET_TOPIC))),
           ClearingPublish(TopicBuilder_build(TopicBuilder_add_attr(
               TopicBuilder_new_for_property(proto.device_ref.homie_domain, device_id, node_id, prop_id),
               PROPERTY_ATTRIBUTE_TARGET)))>>
    ELSE <<>>

\* what the generator of the given kind yields for one enumerated property
ItemsFor(g, node_id, prop_id) ==
    CASE g.kind = "ctl_subscribe_props" ->
            Controller_subscribe_props(g.device, node_id, prop_id)
      [] g.kind = "ctl_unsubscribe_props" ->
            Controller_unsubscribe_props(g.device, node_id, prop_id)
      [] g.kind = "dev_subscribe_props" ->
            Device_subscribe_props_for_id(g.proto, g.device.id, node_id, prop_id)
      [] g.kind = "dev_unsubscribe_props" ->
            Device_unsubscribe_props_for_id(g.proto, g.device.id, node_id, prop_id)
      [] g.kind = "dev_remove_device" ->
            Device_remove_device_props(g.proto, g.device.id, node_id, prop_id,
                                       g.description.nodes[node_id].properties[prop_id])

TopicsOf(items) == {items[i].topic : i \in 1..Len(items)}

\* the MQTT client applies each yielded Subscription / Unsubscribe to its
\* set of subscribed topic filters
ApplyToSubs(kind, items, current) ==
    CASE kind \in {"ctl_subscribe_props", "dev_subscribe_props"} -> current \cup TopicsOf(items)
      [] kind \in {"ctl_unsubscribe_props", "dev_unsubscribe_props"} -> current \ TopicsOf(items)
      [] OTHER -> current

NoPub == [kind |-> None]

NoMsg == [kind |-> None]

NoGen == [kind |-> None]

(***************************************************************************)
(* Inbound topics and payloads                                             *)
(***************************************************************************)
\* longest inbound topic, in tokens
MaxTokens == 7

\* parse calls made one after the other by one receiver
MaxParseCalls == 3

\* candidate tokens for each position of an inbound topic
TokenChoices(i) ==
    CASE i = 1 -> {DEFAULT_ROOT_TOPIC, <<"x">>}
      [] i = 2 -> {HOMIE_VERSION, <<"4">>}
      [] i = 3 -> {DeviceIdPool[1], HOMIE_TOPIC_BROADCAST, <<"R">>}
      [] i = 4 -> {DEVICE_ATTRIBUTE_STATE, DEVICE_ATTRIBUTE_DESCRIPTION, DEVICE_ATTRIBUTE_LOG,
                   DEVICE_ATTRIBUTE_ALERT, NodeIdPool[1], <<"$", "x">>}
      [] i = 5 -> {PropIdPool[1], <<"i", "n", "f", "o">>}
      [] i = 6 -> {PROPERTY_SET_TOPIC, PROPERTY_ATTRIBUTE_TARGET, <<"x">>}
      [] OTHER -> {<<"x">>}

RECURSIVE TokenSeqs(_)
TokenSeqs(n) ==
    IF n = 0 THEN {<<>>}
    ELSE {Append(s, t) : s \in TokenSeqs(n - 1), t \in TokenChoices(n)}

RawTopics == {Join(s, "/") : s \in UNION {TokenSeqs(n) : n \in 1..MaxTokens}}

RawPayloads ==
    {BytesPayload(StrBytes(HomieDeviceStatus_as_str(st))) : st \in HomieDeviceStatusValues}
        \cup {BytesPayload(b) :
                b \in {<<>>, <<0>>, <<255>>, <<195>>, <<195, 169>>,
                       StrBytes(<<"b", "o", "g", "u", "s">>),
                       StrBytes(<<"R", "e", "a", "d", "y">>),
                       StrBytes(<<"r", "e", "a", "d", "y", " ">>)}}
        \cup {JsonPayload(SerializeDescription(d)) :
                d \in {[root |-> NoneOpt, nodes |-> EmptyMap],
                       [root |-> Some(DeviceIdPool[2]),
                        nodes |-> [n \in {NodeIdPool[1]} |-> [properties |-> EmptyMap]]]}}

Init ==
    /\ machines = <<>>
    /\ pub = NoPub
    /\ msg = NoMsg
    /\ gen = NoGen
    /\ subs = {}

\* one call of a publish function of the device protocol; the returned
\* Publish (or error) is the value in flight
DevicePublishCall ==
    /\ pub = NoPub /\ msg = NoMsg
    /\ \E proto \in Protocols, device_id \in DeviceIds :
        \/ \E state \in HomieDeviceStatusValues :
                pub' = publish_state_for_id(proto, device_id, state)
        \/ \E level \in DeviceLogLevels, t \in Texts :
                pub' = publish_log_for_id(proto, device_id, level, t)
        \/ \E a \in AlertIds, t \in Texts :
                pub' = publish_alert_for_id(proto, device_id, a, t)
        \/ \E n \in NodeIds, p \in PropIds, t \in Texts, r \in BOOLEAN :
                pub' = publish_value_for_id(proto, device_id, n, p, t, r)
        \/ \E n \in NodeIds, p \in PropIds, t \in Texts, r \in BOOLEAN :
                pub' = publish_target_for_id(proto, device_id, n, p, t, r)
        \/ \E d \in DescriptionsOver(CodecPropertyDescriptions) :
                pub' = publish_description_for_id(proto, device_id, d)
    /\ msg' = NoMsg
    /\ UNCHANGED <<machines, gen, subs>>

\* one call of the controller's set command
ControllerSetCommand ==
    /\ pub = NoPub /\ msg = NoMsg
    /\ \E dom \in Domains, device_id \in DeviceIds, n \in NodeIds, p \in PropIds,
          v \in HomieValues :
            pub' = set_command_ids(dom, device_id, n, p, v)
    /\ msg' = NoMsg
    /\ UNCHANGED <<machines, gen, subs>>

\* the transport delivers the Publish in flight and the receiver parses it
ParsePublished ==
    /\ pub.kind # None
    /\ pub.ok
    /\ msg = NoMsg
    /\ msg' = [kind |-> "parsed", from_pub |-> TRUE, topic |-> pub.topic,
               payload |-> pub.payload,
               result |-> parse_mqtt_message(pub.topic, pub.payload)]
    /\ UNCHANGED <<machines, pub, gen, subs>>

\* the receiver parses an arbitrary inbound (topic, payload) pair
ParseRaw ==
    /\ pub = NoPub /\ msg = NoMsg
    /\ \E topic \in RawTopics, payload \in RawPayloads :
            msg' = [kind |-> "parsed", from_pub |-> FALSE, topic |-> topic,
                    payload |-> payload, result |-> parse_mqtt_message(topic, payload)]
    /\ pub' = NoPub
    /\ UNCHANGED <<machines, gen, subs>>

\* the (topic, payload) pairs a receiver is handed repeatedly
SequenceTopics ==
    {Join(<<DEFAULT_ROOT_TOPIC, HOMIE_VERSION, DeviceIdPool[1], DEVICE_ATTRIBUTE_STATE>>, "/"),
     Join(<<DEFAULT_ROOT_TOPIC, HOMIE_VERSION, DeviceIdPool[1], NodeIdPool[1], PropIdPool[1]>>, "/"),
     Join(<<DEFAULT_ROOT_TOPIC, HOMIE_VERSION, DeviceIdPool[1]>>, "/"),
     Join(<<DEFAULT_ROOT_TOPIC, HOMIE_VERSION, HOMIE_TOPIC_BROADCAST, <<"x">>>>, "/")}

SequencePayloads ==
    {BytesPayload(<<>>), BytesPayload(<<195>>),
     BytesPayload(StrBytes(HomieDeviceStatus_as_str("Ready"))),
     BytesPayload(StrBytes(<<"b", "o", "g", "u", "s">>))}

\* parse_mqtt_message is a free function of (topic, payload): the calls made
\* before it (history) are not among its inputs
ParseAfter_sticky_error(history, topic, payload) ==
    IF history # <<>> /\ ~history[Len(history)].result.ok
    THEN history[Len(history)].result
    ELSE parse_mqtt_message(topic, payload)

ParseAfter(history, topic, payload) == parse_mqtt_message(topic, payload)

\* one more call of a receiver that parses message after message
ParseCall ==
    /\ pub = NoPub
    /\ msg = NoMsg \/ (msg.kind = "sequence" /\ Len(msg.calls) < MaxParseCalls)
    /\ \E topic \in SequenceTopics, payload \in SequencePayloads :
        LET history == IF msg = NoMsg THEN <<>> ELSE msg.calls
        IN msg' = [kind |-> "sequence",
                   calls |-> Append(history,
                                [topic |-> topic, payload |-> payload,
                                 result |-> ParseAfter(history, topic, payload)])]
    /\ UNCHANGED <<machines, pub, gen, subs>>

NextParseSequence == ParseCall

SpecParseSequence == Init /\ [][NextParseSequence]_vars

NextCodec ==
    \/ DevicePublishCall
    \/ ControllerSetCommand
    \/ ParsePublished
    \/ ParseRaw

SpecCodec == Init /\ [][NextCodec]_vars

\* the state of a freshly returned generator; prev and prev_topics keep what
\* the generator consumed before it yielded
NewGen(kind, proto, device, description, it, attr_idx) ==
    [kind |-> kind, ok |-> TRUE, err |-> None, proto |-> proto, device |-> device,
     description |-> description, it |-> it, attr_idx |-> attr_idx, out |-> <<>>,
     done |-> FALSE,
     prev |-> IF gen = NoGen THEN None ELSE gen.kind,
     prev_topics |-> IF gen = NoGen THEN {} ELSE TopicsOf(gen.out)]

\* a call that returned Err: nothing to consume
FailedGen(kind, proto, device, description, err) ==
    [NewGen(kind, proto, device, description,
            [node_iter |-> {}, current_node |-> NoneOpt, property_iter |-> NoneOpt], 0)
        EXCEPT !.ok = FALSE, !.err = err, !.done = TRUE]

\* the subscriptions of the generator just consumed are to be given up again
\* (examples/devices/homie_device.rs: subscribe on publish, unsubscribe on
\* reconfigure and disconnect)
Subscribed(kind) == gen.kind = kind /\ gen.ok /\ gen.done

ControllerPropsStart(kind, device, description) ==
    \E it \in HomiePropertyIterator_new(description) :
        gen' = NewGen(kind, NoneOpt, device, description, it, 0)

\* Homie5ControllerProtocol::subscribe_props
Controller_subscribe_props_call ==
    /\ gen = NoGen
    /\ \E device \in DeviceRefs, description \in ControllerDescriptions :
        ControllerPropsStart("ctl_subscribe_props", device, description)
    /\ UNCHANGED <<machines, pub, msg, subs>>

\* Homie5ControllerProtocol::unsubscribe_props
Controller_unsubscribe_props_call ==
    /\ \/ /\ gen = NoGen
          /\ \E device \in DeviceRefs, description \in ControllerDescriptions :
                ControllerPropsStart("ctl_unsubscribe_props", device, description)
       \/ /\ Subscribed("ctl_subscribe_props")
          /\ ControllerPropsStart("ctl_unsubscribe_props", gen.device, gen.description)
    /\ UNCHANGED <<machines, pub, msg, subs>>

\* Homie5DeviceProtocol::subscribe_props_for_id / unsubscribe_props_for_id /
\* remove_device_for_id: root validation, then the lazy generator
DevicePropsStart(kind, proto, device_id, description) ==
    LET device == DeviceRefOf(proto, device_id)
        check == RootValidation(proto, device_id, description)
    IN IF check # "Ok"
       THEN gen' = FailedGen(kind, Some(proto), device, description, check)
       ELSE \E it \in HomiePropertyIterator_new(description) :
                gen' = NewGen(kind, Some(proto), device, description, it,
                              IF kind = "dev_remove_device" THEN 1 ELSE 0)

Device_subscribe_props_call ==
    /\ gen = NoGen
    /\ \E proto \in DeviceProtocols, device_id \in DeviceIds, description \in DeviceDescriptions :
        DevicePropsStart("dev_subscribe_props", proto, device_id, description)
    /\ UNCHANGED <<machines, pub, msg, subs>>

Device_unsubscribe_props_call ==
    /\ \/ /\ gen = NoGen
          /\ \E proto \in DeviceProtocols, device_id \in DeviceIds,
                description \in DeviceDescriptions :
                DevicePropsStart("dev_unsubscribe_props", proto, device_id, description)
       \/ /\ Subscribed("dev_subscribe_props")
          /\ DevicePropsStart("dev_unsubscribe_props", gen.proto[1], gen.device.id,
                              gen.description)
    /\ UNCHANGED <<machines, pub, msg, subs>>

Device_remove_device_call ==
    /\ gen = NoGen
    /\ \E proto \in DeviceProtocols, device_id \in DeviceIds, description \in DeviceDescriptions :
        DevicePropsStart("dev_remove_device", proto, device_id, description)
    /\ UNCHANGED <<machines, pub, msg, subs>>

\* the caller pulls the next element(s) of the generator: for remove_device
\* first the four device attributes, then one step of the property
\* enumerator with the items its closure yields; the MQTT client applies
\* what was yielded
GenPull ==
    /\ gen.kind # None
    /\ ~gen.done
    /\ IF gen.attr_idx \in 1..Len(DEVICE_ATTRIBUTES)
       THEN /\ gen' = [gen EXCEPT
                        !.out = Append(@, Device_remove_device_attr(
                                    gen.proto[1], gen.device.id, DEVICE_ATTRIBUTES[gen.attr_idx])),
                        !.attr_idx = @ + 1]
            /\ subs' = subs
       ELSE \E o \in HomiePropertyIterator_next(gen.it, gen.description) :
            IF o.item = NoneOpt
            THEN /\ gen' = [gen EXCEPT !.it = o.it, !.done = TRUE]
                 /\ subs' = subs
            ELSE LET g == [gen EXCEPT !.proto = IF gen.proto = NoneOpt THEN gen.proto ELSE gen.proto[1]]
                     items == ItemsFor(g, o.item[1].node_id, o.item[1].prop_id)
                 IN /\ gen' = [gen EXCEPT !.it = o.it, !.out = @ \o items]
                    /\ subs' = ApplyToSubs(gen.kind, items, subs)
    /\ UNCHANGED <<machines, pub, msg>>

NextController ==
    \/ Controller_subscribe_props_call
    \/ Controller_unsubscribe_props_call
    \/ GenPull

SpecController == Init /\ [][NextController]_vars

\* Homie5DeviceProtocol::publish_description_for_id, called by the device:
\* the Result is Err, or the one Publish of the description
Device_publish_description_call ==
    /\ gen = NoGen
    /\ \E proto \in DeviceProtocols, device_id \in DeviceIds, description \in DeviceDescriptions :
        LET device == DeviceRefOf(proto, device_id)
            res == publish_description_for_id(proto, device_id, description)
            none == [node_iter |-> {}, current_node |-> NoneOpt, property_iter |-> NoneOpt]
        IN gen' = IF res.ok
                  THEN [NewGen("dev_publish_description", Some(proto), device, description, none, 0)
                            EXCEPT !.out = <<res>>, !.done = TRUE]
                  ELSE FailedGen("dev_publish_description", Some(proto), device, description,
                                 res.err)
    /\ UNCHANGED <<machines, pub, msg, subs>>

NextDevice ==
    \/ Device_publish_description_call
    \/ Device_subscribe_props_call
    \/ Device_unsubscribe_props_call
    \/ Device_remove_device_call
    \/ GenPull

SpecDevice == Init /\ [][NextDevice]_vars

NextSteps ==
    \/ homie_device_publish_steps
    \/ homie_device_reconfigure_steps
    \/ homie_device_disconnect_steps
    \/ \E i \in 1..MaxMachines : StepNext(i)

SpecSteps == Init /\ [][NextSteps]_vars

(***************************************************************************)
(* Claims about the step sequences                                         *)
(***************************************************************************)
IsPrefix(s, t) == Len(s) <= Len(t) /\ \A i \in 1..Len(s) : s[i] = t[i]

PublishSteps ==
    <<"DeviceStateInit", "DeviceDescription", "PropertyValues",
      "SubscribeProperties", "DeviceStateReady">>

ReconfigureSteps ==
    <<"DeviceStateInit", "UnsubscribeProperties", "Reconfigure", "DeviceDescription",
      "PropertyValues", "SubscribeProperties", "DeviceStateReady">>

DisconnectSteps == <<"DeviceStateDisconnect", "UnsubscribeProperties">>

\* what a sequence of the given kind has yielded so far is a prefix of the
\* expected steps, it is exhausted exactly when all of them were yielded,
\* and once it returned None it has yielded all of them
YieldsExactly(kind, expected) ==
    \A i \in 1..Len(machines) :
        machines[i].kind = kind =>
            /\ IsPrefix(machines[i].yielded, expected)
            /\ (machines[i].state = None) <=> (machines[i].yielded = expected)
            /\ machines[i].nones > 0 => machines[i].yielded = expected

\* C1: every sequence returned by homie_device_publish_steps() yields
\* DeviceStateInit, DeviceDescription, PropertyValues, SubscribeProperties,
\* DeviceStateReady in this order, each once, and then ends.
C1_PublishStepsOrdered == YieldsExactly("publish", PublishSteps)

C1_Witness ==
    \E i \in 1..Len(machines) :
        /\ machines[i].kind = "publish"
        /\ machines[i].nones > 0
        /\ Len(machines[i].yielded) = 5

\* C2: every sequence returned by homie_device_reconfigure_steps() yields
\* DeviceStateInit, UnsubscribeProperties, Reconfigure, DeviceDescription,
\* PropertyValues, SubscribeProperties, DeviceStateReady in this order, each
\* once, and then ends.
C2_ReconfigureStepsOrdered == YieldsExactly("reconfigure", ReconfigureSteps)

C2_Witness ==
    \E i \in 1..Len(machines) :
        /\ machines[i].kind = "reconfigure"
        /\ machines[i].nones > 0
        /\ Len(machines[i].yielded) = 7

\* C3: every sequence returned by homie_device_disconnect_steps() yields
\* DeviceStateDisconnect, then UnsubscribeProperties, each once, and then ends.
C3_DisconnectStepsOrdered == YieldsExactly("disconnect", DisconnectSteps)

C3_Witness ==
    \E i \in 1..Len(machines) :
        /\ machines[i].kind = "disconnect"
        /\ machines[i].nones > 0
        /\ Len(machines[i].yielded) = 2

(***************************************************************************)
(* Claims about the topic codec                                            *)
(***************************************************************************)
\* the parsed topic is <domain>/5/<device-id>/$state for a domain dom and a
\* HomieID dev
IsStateTopicOf(dom, dev) ==
    /\ msg.kind = "parsed"
    /\ HomieID_validate(dev)
    /\ msg.topic = Join(<<dom, HOMIE_VERSION, dev, DEVICE_ATTRIBUTE_STATE>>, "/")

StateTopicDomains == TokenChoices(1) \cup {HomieDomain_to_string(d) : d \in Domains}

StateTopicDevices == TokenChoices(3) \cup DeviceIds

IsStatusPayload(payload, st) ==
    payload = BytesPayload(StrBytes(HomieDeviceStatus_as_str(st)))

\* the result the claim states for a $state topic, with otherErr the error
\* of a payload that is neither empty nor a status literal
StateResult(dom, dev, payload, otherErr) ==
    IF payload = BytesPayload(<<>>)
    THEN [ok |-> TRUE, kind |-> "DeviceRemoval", device |-> DeviceIdentifier(dom, dev)]
    ELSE IF \E st \in HomieDeviceStatusValues : IsStatusPayload(payload, st)
    THEN [ok |-> TRUE, kind |-> "DeviceState", device |-> DeviceIdentifier(dom, dev),
          state |-> CHOOSE st \in HomieDeviceStatusValues : IsStatusPayload(payload, st)]
    ELSE Err(otherErr)

\* C4 (as stated): for a topic <domain>/5/<device-id>/$state the parser
\* returns DeviceRemoval for an empty payload, DeviceState for a status
\* literal, and Err(InvalidPayload) for every other payload.
C4_StateParse_Original ==
    \A dom \in StateTopicDomains, dev \in StateTopicDevices :
        IsStateTopicOf(dom, dev) =>
            msg.result = StateResult(dom, dev, msg.payload, "InvalidPayload")

\* C4 (amended): for a topic <domain>/5/<device-id>/$state the parser
\* returns DeviceRemoval for an empty payload, DeviceState for a status
\* literal, Err(InvalidPayload) for every other payload that is valid
\* UTF-8 and Err(PayloadConversionError) for a payload that is not valid
\* UTF-8; an empty payload never yields DeviceState.
C4_StateParse ==
    \A dom \in StateTopicDomains, dev \in StateTopicDevices :
        IsStateTopicOf(dom, dev) =>
            /\ msg.result =
                StateResult(dom, dev, msg.payload,
                            IF msg.payload.json # NoneOpt \/ Utf8Valid(msg.payload.bytes)
                            THEN "InvalidPayload" ELSE "PayloadConversionError")
            /\ (msg.payload = BytesPayload(<<>>) =>
                    ~(msg.result.ok /\ msg.result.kind = "DeviceState"))

C4_Witness ==
    /\ \E dom \in StateTopicDomains, dev \in StateTopicDevices : IsStateTopicOf(dom, dev)
    /\ msg.payload = BytesPayload(<<>>)
    /\ msg.result.ok
    /\ msg.result.kind = "DeviceRemoval"

\* the message kind of each publish function
MessageKindOf(kind) ==
    CASE kind = "state" -> "DeviceState"
      [] kind = "log" -> "DeviceLog"
      [] kind = "alert" -> "DeviceAlert"
      [] kind = "description" -> "DeviceDescription"
      [] kind = "value" -> "PropertyValue"
      [] kind = "target" -> "PropertyTarget"
      [] kind = "set" -> "PropertySet"

\* the reference a topic was built from, in the form the message embeds it
EmbeddedRef(ref) ==
    IF "prop_id" \in DOMAIN ref
    THEN PropertyIdentifier_new(HomieDomain_to_string(ref.device.homie_domain),
                                ref.device.id, ref.node_id, ref.prop_id)
    ELSE DeviceIdentifier(HomieDomain_to_string(ref.homie_domain), ref.id)

\* C5: parsing the topic and payload of any Publish generated for a device
\* attribute, a property value, a $target or a set command yields the
\* message kind of that attribute, carrying the reference the topic was
\* built from.
C5_PublishParseRoundTrip ==
    (msg.kind = "parsed" /\ msg.from_pub) =>
        /\ msg.result.ok
        /\ msg.result.kind = MessageKindOf(pub.kind)
        /\ IF "prop_id" \in DOMAIN pub.ref
           THEN msg.result.property = EmbeddedRef(pub.ref)
           ELSE msg.result.device = EmbeddedRef(pub.ref)

(***************************************************************************)
(* Claims about the subscription and removal generators                    *)
(***************************************************************************)
\* the (node id, property id) pairs of a description
PropertiesOf(description) ==
    {<<n, p>> : n \in NodeIds, p \in PropIds} \cap
        {np \in NodeIds \X PropIds :
            /\ np[1] \in DOMAIN description.nodes
            /\ np[2] \in DOMAIN description.nodes[np[1]].properties}

PropertyOf(description, np) == description.nodes[np[1]].properties[np[2]]

\* <domain>/5/<device>/<node>/<prop>
PropertyTopic(device, np) ==
    HomieDomain_to_string(device.homie_domain) \o <<"/", "5", "/">> \o device.id
        \o <<"/">> \o np[1] \o <<"/">> \o np[2]

\* how many of the yielded items carry the topic
Count(items, topic) == Cardinality({i \in 1..Len(items) : items[i].topic = topic})

Consumed(kind) == gen.kind = kind /\ gen.ok /\ gen.done

\* C6: the controller's subscribe_props yields, for each property of the
\* description, exactly one subscription to its value topic and one to its
\* $target topic, and nothing else: twice as many as there are properties.
C6_ControllerSubscribeTwoPerProperty ==
    Consumed("ctl_subscribe_props") =>
        /\ Len(gen.out) = 2 * Cardinality(PropertiesOf(gen.description))
        /\ \A np \in PropertiesOf(gen.description) :
            /\ Count(gen.out, PropertyTopic(gen.device, np)) = 1
            /\ Count(gen.out, PropertyTopic(gen.device, np) \o <<"/", "$", "t", "a", "r", "g", "e", "t">>) = 1

C6_Witness ==
    /\ Consumed("ctl_subscribe_props")
    /\ Cardinality(PropertiesOf(gen.description)) = 2
    /\ Len(gen.out) = 4

\* C7: the topics the controller's unsubscribe_props yields are the topics
\* its subscribe_props yielded for the same device and description, so that
\* subscribing and then unsubscribing leaves no property-level subscription.
C7_ControllerUnsubscribeMirrorsSubscribe ==
    (Consumed("ctl_unsubscribe_props") /\ gen.prev = "ctl_subscribe_props") =>
        /\ TopicsOf(gen.out) = gen.prev_topics
        /\ subs = {}

\* C8: for a description that passes root validation the device's
\* subscribe_props yields one subscription to <prop>/set for each settable
\* property and none for a property that is not settable.
C8_DeviceSubscribeOnlySettable ==
    Consumed("dev_subscribe_props") =>
        \A np \in PropertiesOf(gen.description) :
            Count(gen.out, PropertyTopic(gen.device, np) \o <<"/", "s", "e", "t">>) =
                IF PropertyOf(gen.description, np).settable THEN 1 ELSE 0

\* C9: the topics the device's unsubscribe_props yields are the topics its
\* subscribe_props yielded for the same id and description, so that after
\* SubscribeProperties and UnsubscribeProperties no property subscription
\* is held.
C9_DeviceUnsubscribeMirrorsSubscribe ==
    (Consumed("dev_unsubscribe_props") /\ gen.prev = "dev_subscribe_props") =>
        /\ TopicsOf(gen.out) = gen.prev_topics
        /\ subs = {}

\* <domain>/5/<device>
DeviceTopic(device) ==
    HomieDomain_to_string(device.homie_domain) \o <<"/", "5", "/">> \o device.id

RemovedAttributes ==
    {<<"$", "s", "t", "a", "t", "e">>, <<"$", "l", "o", "g">>, <<"$", "a", "l", "e", "r", "t">>,
     <<"$", "d", "e", "s", "c", "r", "i", "p", "t", "i", "o", "n">>}

\* C10: for a description that passes root validation remove_device yields
\* an empty retained Publish for each of the four device attributes and for
\* the set and $target topic of each retained property, and no Publish for
\* a property that is not retained.
C10_RemoveDeviceClearsRetained ==
    Consumed("dev_remove_device") =>
        /\ \A i \in 1..Len(gen.out) :
            gen.out[i].retain /\ gen.out[i].payload = BytesPayload(<<>>)
        /\ \A a \in RemovedAttributes :
            Count(gen.out, DeviceTopic(gen.device) \o <<"/">> \o a) = 1
        /\ \A np \in PropertiesOf(gen.description) :
            LET n == IF PropertyOf(gen.description, np).retained THEN 1 ELSE 0
            IN /\ Count(gen.out, PropertyTopic(gen.device, np) \o <<"/", "s", "e", "t">>) = n
               /\ Count(gen.out, PropertyTopic(gen.device, np)
                                    \o <<"/", "$", "t", "a", "r", "g", "e", "t">>) = n
               /\ Count(gen.out, PropertyTopic(gen.device, np)) = 0
        /\ Len(gen.out) = 4 + 2 * Cardinality({np \in PropertiesOf(gen.description) :
                                                PropertyOf(gen.description, np).retained})

C10_Witness ==
    /\ Consumed("dev_remove_device")
    /\ \E np \in PropertiesOf(gen.description) : PropertyOf(gen.description, np).retained
    /\ \E np \in PropertiesOf(gen.description) : ~PropertyOf(gen.description, np).retained
    /\ Len(gen.out) = 6

(***************************************************************************)
(* Claims about root validation                                            *)
(***************************************************************************)
ValidatedCalls ==
    {"dev_publish_description", "dev_subscribe_props", "dev_unsubscribe_props",
     "dev_remove_device"}

\* the call in gen was made on a protocol instance that is not a child
NonChildCall == gen.kind \in ValidatedCalls /\ ~gen.proto[1].is_child

RefusedWith(err) ==
    /\ ~gen.ok
    /\ gen.err = err
    /\ gen.done
    /\ gen.out = <<>>

\* C11: on an instance that is not a child, publish_description_for_id,
\* subscribe_props_for_id, unsubscribe_props_for_id and remove_device_for_id
\* return NonEmptyRootForRootDevice when the id is the instance's own and
\* the description has a root, RootMismatch when the id is another one and
\* the root is not the instance's id; either way nothing is produced.
C11_RootValidationErrors ==
    NonChildCall =>
        /\ (gen.device.id = gen.proto[1].device_ref.id /\ gen.description.root # <<>>)
                => RefusedWith("NonEmptyRootForRootDevice")
        /\ (gen.device.id # gen.proto[1].device_ref.id
                /\ gen.description.root # <<gen.proto[1].device_ref.id>>)
                => RefusedWith("RootMismatch")

C11_Witness ==
    /\ NonChildCall
    /\ gen.kind = "dev_remove_device"
    /\ gen.device.id # gen.proto[1].device_ref.id
    /\ gen.description.root = <<>>
    /\ RefusedWith("RootMismatch")

(***************************************************************************)
(* Claims about parser errors and broadcasts                               *)
(***************************************************************************)
Parsed == msg.kind = "parsed"

\* the '/'-separated tokens of the parsed topic
Tokens == Split(msg.topic, "/")

PayloadIsUtf8 == msg.payload.json # <<>> \/ Utf8Valid(msg.payload.bytes)

IsBroadcastToken(t) == t = <<"$", "b", "r", "o", "a", "d", "c", "a", "s", "t">>

\* the topic shapes C12 lists
TooShort == Len(Tokens) < 4

BadDeviceTopic ==
    /\ Len(Tokens) >= 4
    /\ ~IsBroadcastToken(Tokens[3])
    /\ \/ Len(Tokens) > 6
       \/ /\ Len(Tokens) = 4
          /\ Tokens[4] \notin {<<"$", "s", "t", "a", "t", "e">>, <<"$", "l", "o", "g">>,
                               <<"$", "d", "e", "s", "c", "r", "i", "p", "t", "i", "o", "n">>}
       \/ /\ Len(Tokens) = 6
          /\ Tokens[6] \notin {<<"s", "e", "t">>, <<"$", "t", "a", "r", "g", "e", "t">>}

\* C12 (as stated): Err(InvalidTopic) for every topic with fewer than 4
\* tokens and for every non-broadcast topic with more than 6 tokens, with 4
\* tokens and an attribute other than $state, $description, $log, or with
\* 6 tokens and an attribute other than set, $target.
C12_InvalidTopic_Original ==
    (Parsed /\ (TooShort \/ BadDeviceTopic)) => msg.result = [ok |-> FALSE, err |-> "InvalidTopic"]

\* C12 (amended): Err(InvalidTopic) for every topic with fewer than 4 tokens
\* whatever the payload; for the listed non-broadcast topics of 4 or more
\* tokens Err(InvalidTopic) when the payload is valid UTF-8 and
\* Err(PayloadConversionError) when it is not.
C12_InvalidTopic ==
    Parsed =>
        /\ TooShort => msg.result = [ok |-> FALSE, err |-> "InvalidTopic"]
        /\ BadDeviceTopic =>
                msg.result = [ok |-> FALSE,
                              err |-> IF PayloadIsUtf8 THEN "InvalidTopic"
                                      ELSE "PayloadConversionError"]

C12_Witness ==
    /\ Parsed
    /\ BadDeviceTopic
    /\ Len(Tokens) = 6
    /\ PayloadIsUtf8
    /\ msg.result = [ok |-> FALSE, err |-> "InvalidTopic"]

\* C13: Err(InvalidTopic) for every topic whose second token is not "5",
\* whatever the other tokens and the payload are.
C13_VersionTokenChecked ==
    (Parsed /\ Len(Tokens) >= 2 /\ Tokens[2] # <<"5">>) =>
        msg.result = [ok |-> FALSE, err |-> "InvalidTopic"]

\* non-empty, only a-z, 0-9 and '-'
IsHomieID(id) ==
    /\ id # <<>>
    /\ \A i \in 1..Len(id) :
        id[i] \in {"a", "b", "c", "d", "e", "f", "g", "h", "i", "j", "k", "l", "m", "n", "o",
                   "p", "q", "r", "s", "t", "u", "v", "w", "x", "y", "z", "0", "1", "2", "3",
                   "4", "5", "6", "7", "8", "9", "-"}

\* the device id a returned message carries
CarriedDeviceId ==
    IF "device" \in DOMAIN msg.result THEN <<msg.result.device.id>>
    ELSE IF "property" \in DOMAIN msg.result THEN <<msg.result.property.node.device.id>>
    ELSE <<>>

\* C14: for a non-broadcast topic the parser returns an error when token[2]
\* is not a HomieID, so no returned message carries a device id that is not
\* a valid HomieID.
C14_DeviceIdValidated ==
    Parsed =>
        /\ (Len(Tokens) >= 3 /\ ~IsBroadcastToken(Tokens[3]) /\ ~IsHomieID(Tokens[3]))
                => ~msg.result.ok
        /\ \A i \in 1..Len(CarriedDeviceId) : IsHomieID(CarriedDeviceId[i])

IsBroadcastTopic == Len(Tokens) >= 4 /\ IsBroadcastToken(Tokens[3])

\* the String of a UTF-8 payload
PayloadString ==
    IF msg.payload.json # <<>> THEN [s |-> <<>>, json |-> msg.payload.json]
    ELSE [s |-> Utf8Chars(msg.payload.bytes), json |-> <<>>]

\* the result is Broadcast with token[0] as the domain, the rest of the
\* topic after <token0>/<token1>/$broadcast/ as the subtopic
BroadcastOfTopic ==
    /\ msg.result.ok
    /\ msg.result.kind = "Broadcast"
    /\ msg.result.topic_root = Tokens[1]
    /\ msg.topic = Tokens[1] \o <<"/">> \o Tokens[2] \o <<"/">> \o Tokens[3] \o <<"/">>
                        \o msg.result.subtopic

\* C15 (as stated): for a topic of at least 4 tokens whose token[2] is
\* $broadcast the parser returns Broadcast with token[0] as the domain,
\* tokens[3..] joined by '/' as the subtopic and the payload as the data.
C15_Broadcast_Original ==
    (Parsed /\ IsBroadcastTopic) =>
        /\ BroadcastOfTopic
        /\ msg.result.data = PayloadString

\* C15 (amended): for a topic of at least 4 tokens whose token[2] is
\* $broadcast and a payload that is valid UTF-8 the parser returns
\* Broadcast with token[0] as the domain, tokens[3..] joined by '/' as the
\* subtopic and the payload as the data, for any number of subtopic tokens;
\* for a payload that is not valid UTF-8 it returns
\* Err(PayloadConversionError). The token-count dispatch is never applied.
C15_Broadcast ==
    (Parsed /\ IsBroadcastTopic) =>
        IF PayloadIsUtf8
        THEN BroadcastOfTopic /\ msg.result.data = PayloadString
        ELSE msg.result = [ok |-> FALSE, err |-> "PayloadConversionError"]

C15_Witness ==
    /\ Parsed
    /\ IsBroadcastTopic
    /\ Len(Tokens) = 7
    /\ PayloadIsUtf8
    /\ msg.result.ok
    /\ msg.result.kind = "Broadcast"

PublishedEmptyString ==
    \E proto \in Protocols, device_id \in DeviceIds, n \in NodeIds, p \in PropIds,
       r \in BOOLEAN :
        \/ pub = publish_value_for_id(proto, device_id, n, p, <<>>, r)
        \/ pub = publish_target_for_id(proto, device_id, n, p, <<>>, r)

\* the string the parsed property message delivers
DeliveredValue ==
    IF msg.result.kind = "PropertyValue" THEN msg.result.value ELSE msg.result.target

\* C20: a property value or $target published with the empty string is
\* encoded as the single byte 0x00, and when that one-byte payload arrives
\* on a property topic the parser delivers the empty string as the value.
C20_EmptyStringOnTheWire ==
    /\ PublishedEmptyString => pub.payload = [bytes |-> <<0>>, json |-> <<>>]
    /\ (Parsed /\ msg.payload = [bytes |-> <<0>>, json |-> <<>>] /\ msg.result.ok
            /\ msg.result.kind \in {"PropertyValue", "PropertyTarget"})
        => DeliveredValue = [s |-> <<>>, json |-> <<>>]

(***************************************************************************)
(* HomieValue::parse                                                       *)
(***************************************************************************)
\* Option<i64> fields of an IntegerRange
Unwrap(opt) == opt[1]

\* IntegerRange::validate_integer_range
validate_integer_range(min, max, step) ==
    /\ step /= NoneOpt => Unwrap(step) > 0
    /\ (min /= NoneOpt /\ max /= NoneOpt) =>
        /\ Unwrap(min) <= Unwrap(max)
        /\ step /= NoneOpt => Unwrap(step) <= Unwrap(max) - Unwrap(min)

\* HomieValue::validate_int: Ok(rounded), Err(IntegerOutOfRange) or, with
\* overflow checks, a panic in `value - base`, `* s` or `+ base`
validate_int(value, format, checks) ==
    IF format.kind /= "IntegerRange" THEN [status |-> "Ok", v |-> value]
    ELSE
    LET range == format.range
        base == IF range.min /= NoneOpt THEN Unwrap(range.min)
                ELSE IF range.max /= NoneOpt THEN Unwrap(range.max)
                ELSE value
        stepped == range.step /= NoneOpt /\ Unwrap(range.step) > 0
        s == Unwrap(range.step)
        diff == Arith(value - base, checks)
        quot == FloatToInt(FloatRound(FloatDiv(IntToFloat(diff.v), IntToFloat(s))))
        prod == Arith(quot * s, checks)
        sum == Arith(prod.v + base, checks)
        rounded == IF stepped THEN sum.v ELSE value
    IN IF stepped /\ (diff.panic \/ prod.panic \/ sum.panic) THEN [status |-> "Panic"]
       ELSE IF /\ (range.min /= NoneOpt => rounded >= Unwrap(range.min))
               /\ (range.max /= NoneOpt => rounded <= Unwrap(range.max))
       THEN [status |-> "Ok", v |-> rounded]
       ELSE [status |-> "Err", err |-> "IntegerOutOfRange"]

\* HomieValue::validate_float for a format that is not a FloatRange
validate_float(value, format) == [status |-> "Ok", v |-> value]

\* the longest prefix of ASCII digits
RECURSIVE TakeDigits(_)
TakeDigits(s) ==
    IF s /= <<>> /\ IsDigit(Head(s)) THEN <<Head(s)>> \o TakeDigits(Tail(s)) ELSE <<>>

\* one optional group (\d+)X of the duration pattern, matched at the front
\* of s: the capture and what is left of s
DurationGroup(s, unit) ==
    LET d == TakeDigits(s)
    IN IF d /= <<>> /\ Len(s) > Len(d) /\ s[Len(d) + 1] = unit
       THEN [capture |-> <<d>>, rest |-> SubSeq(s, Len(d) + 2, Len(s))]
       ELSE [capture |-> NoneOpt, rest |-> s]

\* Regex ^PT(?:(\d+)H)?(?:(\d+)M)?(?:(\d+)S)?$ : the three captures, or None
DurationCaptures(s) ==
    IF Len(s) < 2 \/ SubSeq(s, 1, 2) /= <<"P", "T">> THEN NoneOpt
    ELSE LET h == DurationGroup(SubSeq(s, 3, Len(s)), "H")
             m == DurationGroup(h.rest, "M")
             sec == DurationGroup(m.rest, "S")
         IN IF sec.rest = <<>> THEN <<<<h.capture, m.capture, sec.capture>>>>
            ELSE NoneOpt

\* captures.get(i).map_or(0, |m| m.as_str().parse().unwrap())
CapturedInt(capture) ==
    IF capture = NoneOpt THEN [panic |-> FALSE, v |-> 0]
    ELSE LET p == parse_i64(Unwrap(capture))
         IN IF p.ok THEN [panic |-> FALSE, v |-> p.v] ELSE [panic |-> TRUE]

\* HomieValue::parse_duration
parse_duration(s, checks) ==
    LET captures == DurationCaptures(s)
        hours == CapturedInt(Unwrap(captures)[1])
        minutes == CapturedInt(Unwrap(captures)[2])
        seconds == CapturedInt(Unwrap(captures)[3])
        h3600 == Arith(hours.v * 3600, checks)
        m60 == Arith(minutes.v * 60, checks)
        hm == Arith(h3600.v + m60.v, checks)
        total == Arith(hm.v + seconds.v, checks)
    IN IF captures = NoneOpt THEN [status |-> "Err", err |-> "InvalidDurationFormat"]
       ELSE IF hours.panic \/ minutes.panic \/ seconds.panic THEN [status |-> "Panic"]
       ELSE IF h3600.panic \/ m60.panic \/ hm.panic \/ total.panic THEN [status |-> "Panic"]
       ELSE [status |-> "Ok", v |-> total.v]

\* str::parse::<bool>
parse_bool(raw) ==
    IF raw = <<"t", "r", "u", "e">> THEN [ok |-> TRUE, v |-> TRUE]
    ELSE IF raw = <<"f", "a", "l", "s", "e">> THEN [ok |-> TRUE, v |-> FALSE]
    ELSE [ok |-> FALSE]

\* HomieValue::parse for the datatypes Integer, Float, Boolean, String, Enum
\* and Duration
HomieValue_parse(raw, property_desc, checks) ==
    CASE property_desc.datatype = "Integer" ->
            LET d == parse_i64(raw)
                r == validate_int(d.v, property_desc.format, checks)
            IN IF ~d.ok THEN [status |-> "Err", err |-> "InvalidIntegerFormat"]
               ELSE IF r.status = "Ok"
               THEN [status |-> "Ok", value |-> [kind |-> "Integer", value |-> r.v]]
               ELSE r
      [] property_desc.datatype = "Float" ->
            LET d == parse_f64(raw)
                r == validate_float(d.v, property_desc.format)
            IN IF ~d.ok THEN [status |-> "Err", err |-> "InvalidFloatFormat"]
               ELSE [status |-> "Ok", value |-> [kind |-> "Float", value |-> r.v]]
      [] property_desc.datatype = "Boolean" ->
            LET d == parse_bool(raw)
            IN IF ~d.ok THEN [status |-> "Err", err |-> "InvalidBooleanFormat"]
               ELSE [status |-> "Ok", value |-> [kind |-> "Bool", value |-> d.v]]
      [] property_desc.datatype = "String" ->
            [status |-> "Ok", value |-> [kind |-> "String", value |-> raw]]
      [] property_desc.datatype = "Enum" ->
            IF property_desc.format.kind = "Enum" /\ raw \notin property_desc.format.values
            THEN [status |-> "Err", err |-> "InvalidEnumFormat"]
            ELSE [status |-> "Ok", value |-> [kind |-> "Enum", value |-> raw]]
      [] property_desc.datatype = "Duration" ->
            LET r == parse_duration(raw, checks)
            IN IF r.status = "Ok"
               THEN [status |-> "Ok", value |-> [kind |-> "Duration", value |-> r.v]]
               ELSE r

\* HomiePropertyFormat::Empty
EmptyFormat == [kind |-> "Empty"]

\* HomiePropertyFormat::IntegerRange over ranges that validate_integer_range
\* accepts; 5:15:3 is among them
IntegerRanges ==
    {r \in [min : {NoneOpt, <<-1>>, <<0>>, <<5>>}, max : {NoneOpt, <<15>>},
            step : {NoneOpt, <<1>>, <<2>>, <<3>>}] :
        validate_integer_range(r.min, r.max, r.step)}

\* the property descriptions values are parsed against: datatype and format
ValueDescriptions ==
    {[datatype |-> "Integer", format |-> EmptyFormat]}
        \cup {[datatype |-> "Integer", format |-> [kind |-> "IntegerRange", range |-> r]] :
                r \in IntegerRanges}
        \cup {[datatype |-> d, format |-> EmptyFormat] :
                d \in {"Float", "Boolean", "String", "Enum", "Duration"}}
        \cup {[datatype |-> "Enum",
               format |-> [kind |-> "Enum", values |-> {<<"o", "n">>, <<"o", "f", "f">>}]]}

\* raw texts handed to HomieValue::parse: integers near the quantization
\* points of 5:15:3, at the limits of i64 and just above the integers a
\* float holds exactly; booleans, enum and float texts; durations
RawValues ==
    {i64_to_string(n) : n \in {3, 7, 8, 15, 16, MinInt, MaxInt, MaxInt + 1,
                               2^MantissaBits + 1, 2^MantissaBits + 6,
                               3 * 2^(MantissaBits - 2) + 1}}
        \cup {<<>>, <<"o", "n">>, <<"t", "r", "u", "e">>, <<"N", "a", "N">>,
              <<"i", "n", "f">>}
        \cup {<<"P", "T">>, <<"P", "T", "1", "H", "5", "S">>,
              <<"P", "T", "5", "S", "1", "H">>,
              <<"P", "T">> \o i64_to_string(MaxInt) \o <<"H">>,
              <<"P", "T">> \o i64_to_string(MaxInt + 1) \o <<"S">>}

\* the variants whose Display is part of the crate's own code or of std;
\* Display of a Duration is chrono's
Displayable == {"String", "Integer", "Float", "Bool", "Enum"}

\* a call HomieValue::parse(raw, property_desc) in a build with or without
\* overflow checks
HomieValue_parse_call ==
    /\ pub = NoPub /\ gen = NoGen /\ msg = NoMsg
    /\ \E raw \in RawValues, property_desc \in ValueDescriptions, checks \in BOOLEAN :
        msg' = [kind |-> "value", raw |-> raw, property_desc |-> property_desc,
                checks |-> checks, result |-> HomieValue_parse(raw, property_desc, checks),
                again |-> NoneOpt, valid |-> NoneOpt]
    /\ UNCHANGED <<machines, pub, gen, subs>>

\* the value a call returned is formatted with Display and the text is
\* parsed against the same description
HomieValue_reparse_call ==
    /\ msg.kind = "value" /\ msg.again = NoneOpt
    /\ msg.result.status = "Ok" /\ msg.result.value.kind \in Displayable
    /\ msg' = [msg EXCEPT !.again = <<HomieValue_parse(HomieValue_to_string(msg.result.value),
                                                      msg.property_desc, msg.checks)>>]
    /\ UNCHANGED <<machines, pub, gen, subs>>

\* HomieValue::validate: TRUE, FALSE or, with overflow checks, the panic of
\* validate_int
HomieValue_validate(v, property_desc, checks) ==
    CASE v.kind \in {"Empty", "String"} /\ property_desc.datatype = "String" ->
            [status |-> "Ok", v |-> TRUE]
      [] v.kind = "Integer" /\ property_desc.datatype = "Integer" ->
            LET r == validate_int(v.value, property_desc.format, checks)
            IN IF r.status = "Panic" THEN r
               ELSE [status |-> "Ok", v |-> r.status = "Ok" /\ r.v = v.value]
      [] v.kind = "Float" /\ property_desc.datatype = "Float" ->
            LET r == validate_float(v.value, property_desc.format)
            IN [status |-> "Ok", v |-> r.status = "Ok" /\ f64_eq(r.v, v.value)]
      [] v.kind = "Bool" /\ property_desc.datatype = "Boolean" ->
            [status |-> "Ok", v |-> TRUE]
      [] v.kind = "Enum" /\ property_desc.datatype = "Enum" ->
            [status |-> "Ok", v |-> /\ property_desc.format.kind = "Enum"
                                    /\ v.value \in property_desc.format.values]
      [] v.kind = "Duration" /\ property_desc.datatype = "Duration" ->
            [status |-> "Ok", v |-> TRUE]
      [] OTHER -> [status |-> "Ok", v |-> FALSE]

\* the value a call returned is validated against the description it was
\* parsed with
HomieValue_validate_call ==
    /\ msg.kind = "value" /\ msg.valid = NoneOpt
    /\ msg.result.status = "Ok"
    /\ msg' = [msg EXCEPT !.valid = <<HomieValue_validate(msg.result.value, msg.property_desc,
                                                          msg.checks)>>]
    /\ UNCHANGED <<machines, pub, gen, subs>>

NextValue == HomieValue_parse_call \/ HomieValue_reparse_call \/ HomieValue_validate_call

SpecValue == Init /\ [][NextValue]_vars

(***************************************************************************)
(* Claims about value parsing                                              *)
(***************************************************************************)
\* a HomieValue::parse call has returned or panicked
ValueParsed == msg.kind = "value"

\* C17: HomieValue::parse returns Ok or a typed Err and never panics, for
\* every raw string and every property description, integers at the limits
\* of i64 under a range format and durations with any digit groups included.
C17_ParseNeverPanics ==
    ValueParsed =>
        /\ msg.result.status \in {"Ok", "Err"}
        /\ msg.again /= NoneOpt => Unwrap(msg.again).status \in {"Ok", "Err"}

\* the integer nearest to n / d for d > 0, ties away from zero
RoundedQuotient(n, d) ==
    IF n < 0 THEN -((2 * (-n) + d) \div (2 * d)) ELSE (2 * n + d) \div (2 * d)

\* q = round((v - base) / step) * step + base, or v when no step is given
Quantized(v, range) ==
    LET base == IF range.min /= NoneOpt THEN Unwrap(range.min)
                ELSE IF range.max /= NoneOpt THEN Unwrap(range.max)
                ELSE v
    IN IF range.step = NoneOpt THEN v
       ELSE RoundedQuotient(v - base, Unwrap(range.step)) * Unwrap(range.step) + base

\* what parsing the integer v against the range is to return
QuantizedResult(v, range) ==
    LET q == Quantized(v, range)
    IN IF /\ (range.min /= NoneOpt => q >= Unwrap(range.min))
          /\ (range.max /= NoneOpt => q <= Unwrap(range.max))
       THEN [status |-> "Ok", value |-> [kind |-> "Integer", value |-> q]]
       ELSE [status |-> "Err", err |-> "IntegerOutOfRange"]

Range_5_15_3 == [min |-> <<5>>, max |-> <<15>>, step |-> <<3>>]

\* C18: parsing the integer v against an integer range returns
\* q = round((v - base) / step) * step + base (base = min, else max, else v;
\* ties away from zero; q = v without a step) when q is within the bounds
\* present, and IntegerOutOfRange otherwise; for 5:15:3, 7 -> 8, 15 -> 14,
\* and 16 and 3 are rejected.
C18_IntegerQuantization ==
    /\ (/\ ValueParsed
        /\ msg.property_desc.datatype = "Integer"
        /\ msg.property_desc.format.kind = "IntegerRange"
        /\ parse_i64(msg.raw).ok)
        => msg.result = QuantizedResult(parse_i64(msg.raw).v, msg.property_desc.format.range)
    /\ QuantizedResult(7, Range_5_15_3).value.value = 8
    /\ QuantizedResult(15, Range_5_15_3).value.value = 14
    /\ QuantizedResult(16, Range_5_15_3).status = "Err"
    /\ QuantizedResult(3, Range_5_15_3).status = "Err"

\* C19: for every description and every value v that HomieValue::parse
\* returns for it, parsing the Display text of v against the same
\* description succeeds and returns a value equal to v.
C19_DisplayRoundTrip ==
    (ValueParsed /\ msg.again /= NoneOpt) =>
        /\ Unwrap(msg.again).status = "Ok"
        /\ HomieValue_eq(Unwrap(msg.again).value, msg.result.value)

(***************************************************************************)
(* Description versions (update_version, DeviceDescriptionBuilder::build)  *)
(***************************************************************************)
\* descriptions built and kept side by side
MaxBuilt == 2

\* str < str: byte-wise lexicographic order (derived Ord of HomieID)
RECURSIVE StrLess(_, _)
StrLess(a, b) ==
    IF b = <<>> THEN FALSE
    ELSE IF a = <<>> THEN TRUE
    ELSE IF Ord(Head(a)) /= Ord(Head(b)) THEN Ord(Head(a)) < Ord(Head(b))
    ELSE StrLess(Tail(a), Tail(b))

\* keys.sort(): the keys of a map in ascending order
RECURSIVE SortedKeys(_)
SortedKeys(K) ==
    IF K = {} THEN <<>>
    ELSE LET least == CHOOSE k \in K : \A o \in K \ {k} : StrLess(k, o)
         IN <<least>> \o SortedKeys(K \ {least})

\* the orders in which a HashMap with the keys K can be iterated
RECURSIVE Orders(_)
Orders(K) ==
    IF K = {} THEN {<<>>}
    ELSE UNION {{<<k>> \o o : o \in Orders(K \ {k})} : k \in K}

\* Hasher::write: the hasher state after the bytes are fed to it. The state
\* is a fixed function of the byte stream (DefaultHasher::new() has constant
\* keys), here a polynomial digest of the width of the modelled u64.
RECURSIVE Write(_, _)
Write(state, bytes) ==
    IF state \in 0..(2^IntBits - 1) /\ bytes /= <<>>
    THEN Write((state * 31 + Head(bytes) + 1) % 2^IntBits, Tail(bytes))
    ELSE state

\* Hash of a str, an Option<String>, a bool, a Vec<String>
HashStr(state, str) == Write(state, StrBytes(str) \o <<255>>)

HashOpt(state, opt) ==
    IF opt = NoneOpt THEN Write(state, <<0>>) ELSE HashStr(Write(state, <<1>>), Unwrap(opt))

HashBool(state, b) == Write(state, IF b THEN <<1>> ELSE <<0>>)

RECURSIVE HashStrs(_, _)
HashStrs(state, v) == IF v = <<>> THEN state ELSE HashStrs(HashStr(state, Head(v)), Tail(v))

HashVec(state, v) == HashStrs(Write(state, <<Len(v)>>), v)

\* derived Hash of HomiePropertyDescription: name, datatype, format,
\* settable, retained, unit (datatype and format by their discriminant)
HashProperty(state, p) ==
    HashOpt(HashBool(HashBool(Write(Write(HashOpt(state, p.name), <<p.datatype>>),
                                    <<p.format>>),
                              p.settable),
                     p.retained),
            p.unit)

\* for key in keys { key.hash(state); properties.get(key).unwrap().hash(state) }
RECURSIVE HashPropertiesIn(_, _, _)
HashPropertiesIn(state, keys, properties) ==
    IF keys = <<>> THEN state
    ELSE HashPropertiesIn(HashProperty(HashStr(state, Head(keys)), properties[Head(keys)]),
                          Tail(keys), properties)

\* Hash for HomieNodeDescription: name, type, then the properties in sorted
\* key order
HomieNodeDescription_hash(state, node, order) ==
    HashPropertiesIn(HashOpt(HashOpt(state, node.name), node.type),
                     SortedKeys(DOMAIN node.properties), node.properties)

\* the fields hashed before the nodes: name, homie, children, root, parent,
\* extensions; version is not hashed
HashDeviceFields(state, d) ==
    HashVec(HashOpt(HashOpt(HashVec(HashStr(HashOpt(state, d.name), d.homie), d.children),
                            d.root),
                    d.parent),
            d.extensions)

\* for key in keys { key.hash(state); nodes.get(key).unwrap().hash(state) }
RECURSIVE HashNodesIn(_, _, _, _)
HashNodesIn(state, keys, d, order) ==
    IF keys = <<>> THEN state
    ELSE HashNodesIn(
            HomieNodeDescription_hash(HashStr(state, Head(keys)), d.nodes[Head(keys)],
                                      order.properties[Head(keys)]),
            Tail(keys), d, order)

\* Hash for HomieDeviceDescription: the fields, then the nodes in sorted key
\* order. `order` is the iteration order of the maps, which sort() discards.
HomieDeviceDescription_hash(state, d, order) ==
    HashNodesIn(HashDeviceFields(state, d), SortedKeys(DOMAIN d.nodes), d, order)

\* i64::from_ne_bytes(hash.to_ne_bytes())
U64AsI64(h) == Wrap(h)

\* update_version with a Hash impl that hashes the nodes as the map iterates
\* them, without sorting the keys
update_version_unsorted(d, order) ==
    [d EXCEPT !.version = U64AsI64(HashNodesIn(HashDeviceFields(0, d), order.nodes, d, order))]

\* HomieDeviceDescription::update_version: a new hasher, hash, finish
update_version(d, order) ==
    [d EXCEPT !.version = U64AsI64(HomieDeviceDescription_hash(0, d, order))]

\* DeviceDescriptionBuilder::build
DeviceDescriptionBuilder_build(description, order) == update_version(description, order)

\* the node and property ids of versioned descriptions
VersionNodeIds == {NodeIdPool[1], NodeIdPool[2]}

VersionPropIds == {PropIdPool[1], PropIdPool[2]}

\* property descriptions that differ in their unit
VersionProperties ==
    {[name |-> NoneOpt, datatype |-> 0, format |-> 7, settable |-> FALSE,
      retained |-> TRUE, unit |-> u] : u \in {NoneOpt, Some(<<"c">>)}}

VersionNodes ==
    {[name |-> NoneOpt, type |-> NoneOpt, properties |-> m] :
        m \in Maps(VersionPropIds, VersionProperties)}

\* what DeviceDescriptionBuilder holds before build: Default plus name,
\* root and nodes; version is 0
BuilderDescriptions ==
    {[name |-> n, version |-> 0, homie |-> <<"5", ".", "0">>, children |-> <<>>,
      root |-> NoneOpt, parent |-> NoneOpt, extensions |-> <<>>, nodes |-> m] :
        n \in {NoneOpt, Some(<<"a">>)}, m \in Maps(VersionNodeIds, VersionNodes)}

\* the iteration orders the maps of a description can have
MapOrders(d) ==
    {[nodes |-> o, properties |-> po] :
        o \in Orders(DOMAIN d.nodes),
        po \in {f \in [DOMAIN d.nodes -> UNION {Orders(S) : S \in SUBSET VersionPropIds}] :
                    \A n \in DOMAIN d.nodes : f[n] \in Orders(DOMAIN d.nodes[n].properties)}}

\* version values a description can hold before update_version runs
StaleVersions == {7}

\* every field but version
Content(d) == [f \in DOMAIN d \ {"version"} |-> d[f]]

BuiltDescriptions == IF msg.kind = "built" THEN msg.built ELSE <<>>

\* DeviceDescriptionBuilder::new() ... add_node ... build(): the first
\* description is built; the order of the add_node calls shows as the
\* iteration order of its maps
DeviceDescriptionBuilder_build_call ==
    /\ pub = NoPub /\ gen = NoGen /\ msg = NoMsg
    /\ \E d \in BuilderDescriptions :
        \E order \in MapOrders(d) :
            msg' = [kind |-> "built",
                    built |-> <<[description |-> DeviceDescriptionBuilder_build(d, order),
                                 order |-> order, by |-> "build"]>>]
    /\ UNCHANGED <<machines, pub, gen, subs>>

\* the same logical description is built a second time, with the add_node
\* and add_property calls in any order
DeviceDescriptionBuilder_build_again ==
    /\ msg.kind = "built" /\ Len(msg.built) < MaxBuilt
    /\ \E order \in MapOrders(msg.built[1].description) :
        LET d == [msg.built[1].description EXCEPT !.version = 0]
        IN msg' = [msg EXCEPT !.built =
                      Append(@, [description |-> DeviceDescriptionBuilder_build(d, order),
                                 order |-> order, by |-> "build"])]
    /\ UNCHANGED <<machines, pub, gen, subs>>

\* update_version on a copy of a built description whose version field was
\* overwritten
update_version_call ==
    /\ msg.kind = "built" /\ Len(msg.built) < MaxBuilt
    /\ \E i \in 1..Len(msg.built), stale \in StaleVersions :
        \E order \in MapOrders(msg.built[i].description) :
            LET d == [msg.built[i].description EXCEPT !.version = stale]
            IN msg' = [msg EXCEPT !.built =
                          Append(@, [description |-> update_version(d, order),
                                     order |-> order, by |-> "update_version"])]
    /\ UNCHANGED <<machines, pub, gen, subs>>

NextVersion ==
    \/ DeviceDescriptionBuilder_build_call
    \/ DeviceDescriptionBuilder_build_again
    \/ update_version_call

SpecVersion == Init /\ [][NextVersion]_vars

(***************************************************************************)
(* Claims about description versions                                       *)
(***************************************************************************)
\* C21: two descriptions built with the same name, children, root, parent,
\* extensions, nodes and properties have the same version, whatever the
\* order in which nodes and properties were added and whatever version the
\* description held before build or update_version ran.
C21_VersionDeterministic ==
    \A i, j \in 1..Len(BuiltDescriptions) :
        Content(BuiltDescriptions[i].description) = Content(BuiltDescriptions[j].description)
            => BuiltDescriptions[i].description.version
                = BuiltDescriptions[j].description.version

\* two descriptions with two nodes of two properties each, built with
\* different node and property orders, one of them through update_version
\* over a stale version
C21_Witness ==
    /\ Len(BuiltDescriptions) = 2
    /\ Content(BuiltDescriptions[1].description) = Content(BuiltDescriptions[2].description)
    /\ DOMAIN BuiltDescriptions[1].description.nodes = VersionNodeIds
    /\ \A n \in VersionNodeIds :
        /\ DOMAIN BuiltDescriptions[1].description.nodes[n].properties = VersionPropIds
        /\ BuiltDescriptions[1].order.properties[n] /= BuiltDescriptions[2].order.properties[n]
    /\ BuiltDescriptions[1].order.nodes /= BuiltDescriptions[2].order.nodes
    /\ BuiltDescriptions[2].by = "update_version"

(***************************************************************************)
(* Enumerating the properties of a description                             *)
(***************************************************************************)
\* node and property ids of the enumerated descriptions
IterNodeIds == {NodeIdPool[1], NodeIdPool[2], NodeIdPool[3]}

IterPropIds == {PropIdPool[1], PropIdPool[2]}

\* descriptions with up to three nodes of zero, one or two properties
IterDescriptions ==
    {[root |-> NoneOpt, nodes |-> m] :
        m \in Maps(IterNodeIds,
                   {[properties |-> pm] :
                        pm \in Maps(IterPropIds, {[settable |-> FALSE, retained |-> TRUE]})})}

\* HomieDeviceDescription::iter
HomieDeviceDescription_iter_call ==
    /\ pub = NoPub /\ gen = NoGen /\ msg = NoMsg
    /\ \E description \in IterDescriptions :
        \E it \in HomiePropertyIterator_new(description) :
            msg' = [kind |-> "iter", description |-> description, it |-> it,
                    first |-> it.current_node, yielded |-> <<>>, done |-> FALSE]
    /\ UNCHANGED <<machines, pub, gen, subs>>

\* one call of next() on the enumerator; done once it has returned None
HomiePropertyIterator_next_call ==
    /\ msg.kind = "iter" /\ ~msg.done
    /\ \E o \in HomiePropertyIterator_next(msg.it, msg.description) :
        msg' = [msg EXCEPT !.it = o.it,
                           !.yielded = IF o.item = NoneOpt THEN @ ELSE Append(@, Unwrap(o.item)),
                           !.done = (o.item = NoneOpt)]
    /\ UNCHANGED <<machines, pub, gen, subs>>

NextIterator == HomieDeviceDescription_iter_call \/ HomiePropertyIterator_next_call

\* a consumer (for item in description.iter()) keeps calling next until None
SpecIterator == Init /\ [][NextIterator]_vars /\ WF_vars(NextIterator)

(***************************************************************************)
(* Claims about the property enumerator                                    *)
(***************************************************************************)
Enumerating == msg.kind = "iter"

\* the (node id, property id) pairs of a description
PairsOf(description) ==
    {x \in [node_id : DOMAIN description.nodes, prop_id : IterPropIds] :
        x.prop_id \in DOMAIN description.nodes[x.node_id].properties}

\* what has been yielded so far is made of pairs of the description, holds
\* none twice, and keeps the pairs of one node together; once next has
\* returned None every pair has been yielded
EnumeratedSoFar ==
    Enumerating =>
        /\ \A i \in 1..Len(msg.yielded) : msg.yielded[i] \in PairsOf(msg.description)
        /\ \A i, j \in 1..Len(msg.yielded) : msg.yielded[i] = msg.yielded[j] => i = j
        /\ \A i, j, k \in 1..Len(msg.yielded) :
            (i < j /\ j < k /\ msg.yielded[i].node_id = msg.yielded[k].node_id)
                => msg.yielded[j].node_id = msg.yielded[i].node_id
        /\ msg.done => {msg.yielded[i] : i \in 1..Len(msg.yielded)} = PairsOf(msg.description)

\* C22: the property enumerator yields each (node id, property id) pair of
\* the description exactly once and nothing else, keeps the properties of
\* one node consecutive, and terminates; a node without properties adds no
\* item and does not stop the enumeration of the nodes after it.
C22_EnumeratorExactlyOnce == []EnumeratedSoFar /\ <>(Enumerating /\ msg.done)

\* an enumeration over three nodes that yielded a property of the first
\* node, passed a node without properties and then yielded a property of the
\* last node
C22_Witness ==
    /\ Enumerating /\ msg.done
    /\ DOMAIN msg.description.nodes = IterNodeIds
    /\ \E n \in IterNodeIds : DOMAIN msg.description.nodes[n].properties = {}
    /\ Len(msg.yielded) = 2
    /\ msg.yielded[1].node_id = Unwrap(msg.first)
    /\ msg.yielded[2].node_id = Unwrap(msg.it.current_node)
    /\ msg.yielded[1].node_id /= msg.yielded[2].node_id

(***************************************************************************)
(* Equality across reference levels (homie_ref)                            *)
(***************************************************************************)
\* ids of the compared references
RefNodeIds == {NodeIdPool[1], NodeIdPool[2]}

RefPropIds == {PropIdPool[1], PropIdPool[2]}

\* NodeRef { device, id }
NodeRefs == {[device |-> d, id |-> n] : d \in DeviceRefs, n \in RefNodeIds}

\* PropertyRef { device, prop_pointer { node_id, prop_id } }
PropertyRefs ==
    {PropertyRefOf(d.homie_domain, d.id, n, p) : d \in DeviceRefs, n \in RefNodeIds, p \in RefPropIds}

\* derived PartialEq of HomieDomain and of DeviceRef
HomieDomain_eq(a, b) ==
    a.kind = b.kind /\ (a.kind = "Custom" => a.value = b.value)

DeviceRef_eq(a, b) == HomieDomain_eq(a.homie_domain, b.homie_domain) /\ a.id = b.id

\* impl PartialEq<DeviceRef> for PropertyRef
PropertyRef_eq_DeviceRef(self, other) == DeviceRef_eq(self.device, other)

\* impl PartialEq<PropertyRef> for DeviceRef: other.device_ref() == self
DeviceRef_eq_PropertyRef(self, other) == DeviceRef_eq(other.device, self)

\* PropertyRef == NodeRef that compares the device only
PropertyRef_eq_NodeRef_device_only(self, other) == DeviceRef_eq(self.device, other.device)

\* impl PartialEq<NodeRef> for PropertyRef
PropertyRef_eq_NodeRef(self, other) ==
    DeviceRef_eq(self.device, other.device) /\ self.node_id = other.id

\* impl PartialEq<PropertyRef> for NodeRef
NodeRef_eq_PropertyRef(self, other) ==
    DeviceRef_eq(self.device, other.device) /\ self.id = other.node_id

\* property == device and device == property are evaluated
CompareWithDevice ==
    /\ pub = NoPub /\ gen = NoGen /\ msg = NoMsg
    /\ \E property \in PropertyRefs, device \in DeviceRefs :
        msg' = [kind |-> "compared", level |-> "device", property |-> property,
                other |-> device,
                forward |-> PropertyRef_eq_DeviceRef(property, device),
                backward |-> DeviceRef_eq_PropertyRef(device, property)]
    /\ UNCHANGED <<machines, pub, gen, subs>>

\* property == node and node == property are evaluated
CompareWithNode ==
    /\ pub = NoPub /\ gen = NoGen /\ msg = NoMsg
    /\ \E property \in PropertyRefs, node \in NodeRefs :
        msg' = [kind |-> "compared", level |-> "node", property |-> property,
                other |-> node,
                forward |-> PropertyRef_eq_NodeRef(property, node),
                backward |-> NodeRef_eq_PropertyRef(node, property)]
    /\ UNCHANGED <<machines, pub, gen, subs>>

NextRefs == CompareWithDevice \/ CompareWithNode

SpecRefs == Init /\ [][NextRefs]_vars

(***************************************************************************)
(* Claims about reference equality                                         *)
(***************************************************************************)
Compared(level) == msg.kind = "compared" /\ msg.level = level

\* C23: a PropertyRef equals a DeviceRef iff domain and device id are equal,
\* and equals a NodeRef iff domain, device id and node id are equal; the
\* comparison gives the same answer in both operand orders.
C23_CrossLevelEquality ==
    /\ Compared("device") =>
        /\ msg.forward <=> (/\ msg.property.device.homie_domain = msg.other.homie_domain
                            /\ msg.property.device.id = msg.other.id)
        /\ msg.backward = msg.forward
    /\ Compared("node") =>
        /\ msg.forward <=> (/\ msg.property.device.homie_domain = msg.other.device.homie_domain
                            /\ msg.property.device.id = msg.other.device.id
                            /\ msg.property.node_id = msg.other.id)
        /\ msg.backward = msg.forward

\* a property compared with a node of its own device that is not its node:
\* the two are unequal in both orders
C23_Witness ==
    /\ Compared("node")
    /\ msg.property.device = msg.other.device
    /\ msg.property.node_id /= msg.other.id
    /\ ~msg.forward /\ ~msg.backward

(***************************************************************************)
(* Claims about restarting a step sequence                                 *)
(***************************************************************************)
StepsOf(kind) ==
    CASE kind = "publish" -> PublishSteps
      [] kind = "reconfigure" -> ReconfigureSteps
      [] kind = "disconnect" -> DisconnectSteps

\* the steps a sequence still holds, its current state first
Remaining(m) ==
    SubSeq(StepsOf(m.kind), Len(m.yielded) + 1, Len(StepsOf(m.kind)))

\* C24: each call to homie_device_publish_steps, _reconfigure_steps or
\* _disconnect_steps returns a new sequence that starts at its first step,
\* however far any sequence returned before was consumed or abandoned: every
\* sequence stands exactly where its own next() calls have taken it.
C24_SequencesRestart ==
    \A i \in 1..Len(machines) :
        /\ IsPrefix(machines[i].yielded, StepsOf(machines[i].kind))
        /\ machines[i].state =
            (IF Remaining(machines[i]) = <<>> THEN None ELSE Head(Remaining(machines[i])))

\* a publish sequence abandoned after two steps, and a second publish
\* sequence requested afterwards that has yielded DeviceStateInit
C24_Witness ==
    /\ Len(machines) = 2
    /\ machines[1].kind = "publish" /\ machines[2].kind = "publish"
    /\ machines[1].yielded = <<"DeviceStateInit", "DeviceDescription">>
    /\ machines[1].state = "PropertyValues"
    /\ machines[2].yielded = <<"DeviceStateInit">>

(***************************************************************************)
(* Claims about the order of removal                                       *)
(***************************************************************************)
\* remove_device returned Ok and at least one Publish has been pulled
Removing == gen.kind = "dev_remove_device" /\ gen.ok /\ gen.out /= <<>>

StateTopicOf(device) == DeviceTopic(device) \o <<"/", "$", "s", "t", "a", "t", "e">>

\* C25: the first Publish yielded by remove_device is the one that clears
\* the device's $state topic; every other attribute or property topic is
\* cleared only after it.
C25_RemoveStateFirst ==
    Removing =>
        /\ gen.out[1].topic = StateTopicOf(gen.device)
        /\ \A i \in 2..Len(gen.out) : gen.out[i].topic /= StateTopicOf(gen.device)

\* a removal consumed to its end that cleared the four attributes and the
\* topics of one retained property, $state first
C25_Witness ==
    /\ Removing /\ gen.done
    /\ Len(gen.out) = 6
    /\ gen.out[1] = ClearingPublish(StateTopicOf(gen.device))

(***************************************************************************)
(* Retained messages on the broker                                         *)
(***************************************************************************)
\* MQTT retained-message rule: a retained Publish with a payload replaces
\* the retained message of its topic, one with a zero-length payload deletes
\* it, a Publish without the retain flag leaves it alone
BrokerApply(retained, p) ==
    IF ~p.retain THEN retained
    ELSE IF p.payload = BytesPayload(<<>>)
    THEN [t \in DOMAIN retained \ {p.topic} |-> retained[t]]
    ELSE [t \in DOMAIN retained \cup {p.topic} |->
            IF t = p.topic THEN p.payload ELSE retained[t]]

RECURSIVE BrokerApplyAll(_, _)
BrokerApplyAll(retained, items) ==
    IF items = <<>> THEN retained
    ELSE BrokerApplyAll(BrokerApply(retained, Head(items)), Tail(items))

\* the Publishes of publish_property_values: the value of each property,
\* with the retain flag of its description
RECURSIVE PropertyValuePublishes(_, _, _, _)
PropertyValuePublishes(proto, device_id, description, props) ==
    IF props = {} THEN <<>>
    ELSE LET np == CHOOSE x \in props : TRUE
         IN <<publish_value_for_id(proto, device_id, np[1], np[2], <<"o", "n">>,
                                   PropertyOf(description, np).retained)>>
                \o PropertyValuePublishes(proto, device_id, description, props \ {np})

\* HomieDevice::publish_device: $state = init, $description, the property
\* values, $state = ready, each handed to the client
PublishDeviceItems(proto, device_id, description) ==
    <<publish_state_for_id(proto, device_id, "Init"),
      publish_description_for_id(proto, device_id, description)>>
        \o PropertyValuePublishes(proto, device_id, description, PropertiesOf(description))
        \o <<publish_state_for_id(proto, device_id, "Ready")>>

\* the descriptions of the published devices: one node, any properties
BrokerDescriptions == {d \in DeviceDescriptions : DOMAIN d.nodes \subseteq {NodeIdPool[1]}}

\* a device is published to a broker that holds nothing of it
BrokerPublishDevice ==
    /\ pub = NoPub /\ gen = NoGen /\ msg = NoMsg
    /\ \E proto \in DeviceProtocols, device_id \in DeviceIds, description \in BrokerDescriptions :
        /\ RootValidation(proto, device_id, description) = "Ok"
        /\ msg' = [kind |-> "broker", proto |-> proto, device_id |-> device_id,
                   description |-> description,
                   retained |-> BrokerApplyAll(EmptyMap,
                                    PublishDeviceItems(proto, device_id, description))]
    /\ UNCHANGED <<machines, pub, gen, subs>>

\* HomieDevice::unpublish_device: remove_device(description) for the device
\* that was published
BrokerRemoveDevice ==
    /\ msg.kind = "broker" /\ gen = NoGen
    /\ DevicePropsStart("dev_remove_device", msg.proto, msg.device_id, msg.description)
    /\ UNCHANGED <<machines, pub, msg, subs>>

\* for entry in p { client.homie_publish(entry) }: the next element(s) of the
\* removal are pulled and reach the broker
BrokerPull ==
    /\ msg.kind = "broker" /\ gen.kind = "dev_remove_device" /\ ~gen.done
    /\ IF gen.attr_idx \in 1..Len(DEVICE_ATTRIBUTES)
       THEN LET item == Device_remove_device_attr(gen.proto[1], gen.device.id,
                                                  DEVICE_ATTRIBUTES[gen.attr_idx])
            IN /\ gen' = [gen EXCEPT !.out = Append(@, item), !.attr_idx = @ + 1]
               /\ msg' = [msg EXCEPT !.retained = BrokerApply(@, item)]
       ELSE \E o \in HomiePropertyIterator_next(gen.it, gen.description) :
            IF o.item = NoneOpt
            THEN /\ gen' = [gen EXCEPT !.it = o.it, !.done = TRUE]
                 /\ msg' = msg
            ELSE LET items == Device_remove_device_props(
                                gen.proto[1], gen.device.id, o.item[1].node_id, o.item[1].prop_id,
                                gen.description.nodes[o.item[1].node_id].properties[o.item[1].prop_id])
                 IN /\ gen' = [gen EXCEPT !.it = o.it, !.out = @ \o items]
                    /\ msg' = [msg EXCEPT !.retained = BrokerApplyAll(@, items)]
    /\ UNCHANGED <<machines, pub, subs>>

\* Homie5DeviceProtocol::new with the last will addressed to the device topic
Homie5DeviceProtocol_new_will_on_device(device_id, homie_domain) ==
    [proto |-> [device_ref |-> [homie_domain |-> homie_domain, id |-> device_id],
                is_child |-> FALSE],
     last_will |-> [topic |-> TopicBuilder_build(
                                TopicBuilder_new_for_device(homie_domain, device_id)),
                    message |-> StrBytes(HomieDeviceStatus_as_str("Lost")),
                    qos |-> "AtLeastOnce", retain |-> TRUE]]

\* Homie5DeviceProtocol::new: the protocol and its LastWill
Homie5DeviceProtocol_new(device_id, homie_domain) ==
    [proto |-> [device_ref |-> [homie_domain |-> homie_domain, id |-> device_id],
                is_child |-> FALSE],
     last_will |-> [topic |-> TopicBuilder_build(TopicBuilder_add_attr(
                                TopicBuilder_new_for_device(homie_domain, device_id),
                                DEVICE_ATTRIBUTE_STATE)),
                    message |-> StrBytes(HomieDeviceStatus_as_str("Lost")),
                    qos |-> "AtLeastOnce", retain |-> TRUE]]

\* Homie5DeviceProtocol::publish_state
publish_state(proto, state) == publish_state_for_id(proto, proto.device_ref.id, state)

\* homie_map_last_will: the will the broker publishes for the client
homie_map_last_will(last_will) ==
    [topic |-> last_will.topic, payload |-> BytesPayload(last_will.message),
     qos |-> last_will.qos, retain |-> last_will.retain]

\* create_client: the protocol is created and the client connects with the
\* last will the protocol returned
DeviceConnect ==
    /\ pub = NoPub /\ gen = NoGen /\ msg = NoMsg
    /\ \E device_id \in DeviceIds, homie_domain \in Domains :
        LET r == Homie5DeviceProtocol_new(device_id, homie_domain)
        IN msg' = [kind |-> "client", proto |-> r.proto, last_will |-> r.last_will,
                   published |-> NoneOpt, retained |-> EmptyMap, lost |-> FALSE]
    /\ UNCHANGED <<machines, pub, gen, subs>>

\* HomieDevice::publish_state: the state reaches the broker
ClientPublishState ==
    /\ msg.kind = "client" /\ ~msg.lost
    /\ \E state \in HomieDeviceStatusValues :
        LET p == publish_state(msg.proto, state)
        IN msg' = [msg EXCEPT !.published = Some(p), !.retained = BrokerApply(@, p)]
    /\ UNCHANGED <<machines, pub, gen, subs>>

\* the connection is lost and the broker publishes the will
ConnectionLost ==
    /\ msg.kind = "client" /\ ~msg.lost
    /\ msg' = [msg EXCEPT !.lost = TRUE,
                          !.retained = BrokerApply(@, homie_map_last_will(msg.last_will))]
    /\ UNCHANGED <<machines, pub, gen, subs>>

NextBroker ==
    \/ BrokerPublishDevice
    \/ BrokerRemoveDevice
    \/ BrokerPull
    \/ DeviceConnect
    \/ ClientPublishState
    \/ ConnectionLost

SpecBroker == Init /\ [][NextBroker]_vars

(***************************************************************************)
(* Claims about what removal leaves on the broker                          *)
(***************************************************************************)
\* C26: after a device has been published (retained $state, $description and
\* a retained value for every property with retained = true) and every
\* Publish yielded by remove_device has been applied to the broker, no
\* retained message of that device remains on the broker; the retained
\* value of every retained property has been cleared.
C26_RemovalLeavesNothingRetained ==
    (msg.kind = "broker" /\ Consumed("dev_remove_device")) => DOMAIN msg.retained = {}

(***************************************************************************)
(* The controller's discovery loop                                         *)
(***************************************************************************)
\* Homie5ControllerProtocol::discover_devices
Controller_discover_devices(homie_domain) ==
    <<Subscription(Join(<<HomieDomain_to_string(homie_domain), HOMIE_VERSION, <<"+">>,
                          DEVICE_ATTRIBUTE_STATE>>, "/"))>>

\* Homie5ControllerProtocol::subscribe_broadcast
Controller_subscribe_broadcast(homie_domain) ==
    <<Subscription(Join(<<HomieDomain_to_string(homie_domain), HOMIE_VERSION,
                          <<"$", "b", "r", "o", "a", "d", "c", "a", "s", "t">>, <<"#">>>>, "/"))>>

\* the topic filter of one device attribute: $alert carries a "+" level
DeviceAttributeFilter(device, attribute) ==
    IF attribute = DEVICE_ATTRIBUTE_ALERT
    THEN Join(<<DeviceRef_to_topic(device), attribute, <<"+">>>>, "/")
    ELSE Join(<<DeviceRef_to_topic(device), attribute>>, "/")

\* Homie5ControllerProtocol::subscribe_device with $state kept in
Controller_subscribe_device_no_skip(device) ==
    [i \in 1..Len(DEVICE_ATTRIBUTES) |->
        Subscription(DeviceAttributeFilter(device, DEVICE_ATTRIBUTES[i]))]

\* Homie5ControllerProtocol::subscribe_device: DEVICE_ATTRIBUTES.iter().skip(1).map(..)
Controller_subscribe_device(device) ==
    [i \in 1..(Len(DEVICE_ATTRIBUTES) - 1) |->
        Subscription(DeviceAttributeFilter(device, DEVICE_ATTRIBUTES[i + 1]))]

\* Homie5ControllerProtocol::unsubscribe_device: DEVICE_ATTRIBUTES.iter().skip(1).map(..)
Controller_unsubscribe_device(device) ==
    [i \in 1..(Len(DEVICE_ATTRIBUTES) - 1) |->
        Unsubscribe(DeviceAttributeFilter(device, DEVICE_ATTRIBUTES[i + 1]))]

\* the topics a whole subscribe_props / unsubscribe_props iterator yields
SubscribePropsTopics(device, description) ==
    UNION {TopicsOf(Controller_subscribe_props(device, np[1], np[2])) :
                np \in PropertiesOf(description)}

UnsubscribePropsTopics(device, description) ==
    UNION {TopicsOf(Controller_unsubscribe_props(device, np[1], np[2])) :
                np \in PropertiesOf(description)}

\* settings.topic_root: the one domain the controller discovers in
TopicRoot == [kind |-> "Default"]

DiscoveredDevices == {d \in DeviceRefs : d.homie_domain = TopicRoot}

\* the states and descriptions inbound messages carry
DiscoveryStates == {"Init", "Ready"}

DiscoveryDescriptions ==
    {d \in ControllerDescriptions : DOMAIN d.nodes \subseteq {NodeIdPool[1]}}

Handled(event, device, known, subscribed, unsubscribed) ==
    [event |-> event, device |-> device, known |-> known,
     subscribed |-> subscribed, unsubscribed |-> unsubscribed]

\* AppEvent::MqttConnect: the session is clean, the device map is cleared and
\* the discovery and broadcast filters are subscribed
OnMqttConnect ==
    /\ msg = NoMsg \/ msg.kind = "controller"
    /\ pub = NoPub /\ gen = NoGen
    /\ LET topics == TopicsOf(Controller_discover_devices(TopicRoot))
                        \cup TopicsOf(Controller_subscribe_broadcast(TopicRoot))
       IN /\ subs' = topics
          /\ msg' = [kind |-> "controller", devices |-> EmptyMap,
                     last |-> Handled("MqttConnect", NoneOpt, FALSE, topics, {})]
    /\ UNCHANGED <<machines, pub, gen>>

\* Homie5Message::DeviceState { device, state }
OnDeviceState ==
    /\ msg.kind = "controller"
    /\ \E device \in DiscoveredDevices, state \in DiscoveryStates :
        IF device.id \in DOMAIN msg.devices
        THEN /\ msg' = [msg EXCEPT !.devices[device.id].state = state,
                                   !.last = Handled("DeviceState", Some(device), TRUE, {}, {})]
             /\ subs' = subs
        ELSE LET topics == TopicsOf(Controller_subscribe_device(device))
             IN /\ msg' = [msg EXCEPT
                            !.devices = [i \in DOMAIN @ \cup {device.id} |->
                                            IF i = device.id
                                            THEN [ident |-> device, state |-> state,
                                                  description |-> NoneOpt]
                                            ELSE @[i]],
                            !.last = Handled("DeviceState", Some(device), FALSE, topics, {})]
                /\ subs' = subs \cup topics
    /\ UNCHANGED <<machines, pub, gen>>

\* Homie5Message::DeviceDescription { device, description }
OnDeviceDescription ==
    /\ msg.kind = "controller"
    /\ \E device \in DiscoveredDevices, description \in DiscoveryDescriptions :
        IF device.id \notin DOMAIN msg.devices
        THEN /\ msg' = [msg EXCEPT
                            !.last = Handled("DeviceDescription", Some(device), FALSE, {}, {})]
             /\ subs' = subs
        ELSE LET old == msg.devices[device.id].description
                 unsub == IF old /= NoneOpt THEN UnsubscribePropsTopics(device, Unwrap(old))
                          ELSE {}
                 sub == SubscribePropsTopics(device, description)
             IN /\ msg' = [msg EXCEPT
                            !.devices[device.id].description = Some(description),
                            !.last = Handled("DeviceDescription", Some(device), TRUE, sub, unsub)]
                /\ subs' = (subs \ unsub) \cup sub
    /\ UNCHANGED <<machines, pub, gen>>

\* Homie5Message::DeviceRemoval { device }
OnDeviceRemoval ==
    /\ msg.kind = "controller"
    /\ \E device \in DiscoveredDevices :
        LET attrs == TopicsOf(Controller_unsubscribe_device(device))
        IN IF device.id \notin DOMAIN msg.devices
           THEN /\ msg' = [msg EXCEPT
                            !.last = Handled("DeviceRemoval", Some(device), FALSE, {}, attrs)]
                /\ subs' = subs \ attrs
           ELSE LET old == msg.devices[device.id].description
                    props == IF old /= NoneOpt
                             THEN UnsubscribePropsTopics(device, Unwrap(old)) ELSE {}
                IN /\ msg' = [msg EXCEPT
                                !.devices = [i \in DOMAIN @ \ {device.id} |-> @[i]],
                                !.last = Handled("DeviceRemoval", Some(device), TRUE, {},
                                                 attrs \cup props)]
                   /\ subs' = (subs \ attrs) \ props
    /\ UNCHANGED <<machines, pub, gen>>

NextDiscovery == OnMqttConnect \/ OnDeviceState \/ OnDeviceDescription \/ OnDeviceRemoval

SpecDiscovery == Init /\ [][NextDiscovery]_vars

(***************************************************************************)
(* Claims about the discovery loop                                         *)
(***************************************************************************)
Discovering == msg.kind = "controller"

\* the value and $target topic of every property of a device
PropertyLevelTopics(device) ==
    UNION {{PropertyTopic(device, np),
            PropertyTopic(device, np) \o <<"/", "$", "t", "a", "r", "g", "e", "t">>} :
                np \in NodeIds \X PropIds}

\* the value and $target topics of the description stored for a device
StoredPropertyTopics(device) ==
    IF device.id \in DOMAIN msg.devices /\ msg.devices[device.id].description /= NoneOpt
    THEN UNION {{PropertyTopic(device, np),
                 PropertyTopic(device, np) \o <<"/", "$", "t", "a", "r", "g", "e", "t">>} :
                    np \in PropertiesOf(Unwrap(msg.devices[device.id].description))}
    ELSE {}

\* C27: after any sequence of DeviceState, DeviceDescription and
\* DeviceRemoval messages since the last connect, the property-level
\* subscriptions the controller holds are exactly the value and $target
\* topics of the properties of the description stored for each device in
\* the device map; none remains for a removed device or a replaced
\* description, and none exists for a device whose state was never received.
C27_PropertySubscriptionsFollowDescriptions ==
    Discovering =>
        \A device \in DiscoveredDevices :
            subs \cap PropertyLevelTopics(device) = StoredPropertyTopics(device)

\* the device-attribute filters of a device: $log, $alert/+ and $description
DeviceAttributeTopics(device) ==
    {DeviceTopic(device) \o <<"/", "$", "l", "o", "g">>,
     DeviceTopic(device) \o <<"/", "$", "a", "l", "e", "r", "t", "/", "+">>,
     DeviceTopic(device) \o <<"/", "$", "d", "e", "s", "c", "r", "i", "p", "t", "i", "o", "n">>}

\* every filter the controller could hold below the topic of a device
DeviceLevelTopics(device) ==
    DeviceAttributeTopics(device)
        \cup {DeviceTopic(device) \o <<"/">> \o DEVICE_ATTRIBUTES[i] : i \in 1..Len(DEVICE_ATTRIBUTES)}

\* C28: the devices whose attribute filters ($log, $alert/+, $description)
\* are subscribed are exactly the devices in the device map: the filters are
\* subscribed when the first DeviceState of an unseen device is handled, no
\* subscription is issued for a later state update, and they are
\* unsubscribed on removal.
C28_AttributeSubscriptionsFollowDeviceMap ==
    Discovering =>
        /\ \A device \in DiscoveredDevices :
            subs \cap DeviceLevelTopics(device) =
                IF device.id \in DOMAIN msg.devices THEN DeviceAttributeTopics(device) ELSE {}
        /\ msg.last.event = "DeviceState" =>
            msg.last.subscribed =
                IF msg.last.known THEN {} ELSE DeviceAttributeTopics(Unwrap(msg.last.device))
        /\ msg.last.event = "DeviceRemoval" =>
            DeviceAttributeTopics(Unwrap(msg.last.device)) \subseteq msg.last.unsubscribed

\* a device that is in the map with a description received a further state:
\* its attribute filters are held and nothing was subscribed for the update
C28_Witness ==
    /\ Discovering
    /\ msg.last.event = "DeviceState" /\ msg.last.known
    /\ DOMAIN msg.devices = {Unwrap(msg.last.device).id}
    /\ msg.devices[Unwrap(msg.last.device).id].description /= NoneOpt
    /\ subs \cap DeviceAttributeTopics(Unwrap(msg.last.device)) /= {}

(***************************************************************************)
(* Claims about validating parsed values                                   *)
(***************************************************************************)
\* C29: for every property description and raw string that
\* HomieValue::parse accepts, the value v it returns satisfies
\* v.validate(description) = true.
C29_ParsedValuesValidate ==
    (msg.kind = "value" /\ msg.result.status = "Ok" /\ msg.valid /= NoneOpt) =>
        Unwrap(msg.valid) = [status |-> "Ok", v |-> TRUE]

(***************************************************************************)
(* Claims about the last will                                              *)
(***************************************************************************)
Connected == msg.kind = "client"

\* C30: the LastWill returned by Homie5DeviceProtocol::new is addressed to
\* the $state topic that publish_state of the same protocol publishes to,
\* carries the payload "lost" and has retain = true; when the broker
\* publishes it, "lost" replaces the state the device published.
C30_LastWillOnStateTopic ==
    Connected =>
        /\ \A state \in HomieDeviceStatusValues :
            msg.last_will.topic = publish_state(msg.proto, state).topic
        /\ msg.published /= NoneOpt => msg.last_will.topic = Unwrap(msg.published).topic
        /\ msg.last_will.message = <<108, 111, 115, 116>>
        /\ msg.last_will.retain
        /\ msg.lost => msg.retained = (msg.last_will.topic :> BytesPayload(<<108, 111, 115, 116>>))

\* a device that published "ready" lost its connection
C30_Witness ==
    /\ Connected
    /\ msg.published /= NoneOpt
    /\ Unwrap(msg.published).payload = BytesPayload(StrBytes(<<"r", "e", "a", "d", "y">>))
    /\ msg.lost
    /\ DOMAIN msg.retained = {msg.last_will.topic}

====
